---- MODULE Spec2Model ----
(***************************************************************************)
(* Collision detector of signalk-cpa-tcpa-plugin (src/index.js).           *)
(*                                                                         *)
(* Units and representation of the JavaScript numbers:                     *)
(*  - positions are {latitude, longitude} in metres of arc around          *)
(*    (0 N, 0 E): one unit of latitude is one metre north, one unit of     *)
(*    longitude one metre east (cos(avgLat) = 1 at this scale), so a       *)
(*    degree is MetresPerDegree units; haversineDistance is the Euclidean  *)
(*    distance of the two points and is carried as its square;             *)
(*  - timestamps and the clock are in whole seconds (the code's            *)
(*    milliseconds / 1000);                                                *)
(*  - a course is a number of quarter turns (k stands for k*pi/2 rad), so  *)
(*    that sin and cos are exact; 4 is 2*pi;                               *)
(*  - an optional number is a tagged value: Num(n), JSNull, JSUndefined,   *)
(*    JSNaN, JSInfinity;                                                   *)
(*  - a real result is a fraction [n, d] with d >= 0; Infinity is [1, 0]   *)
(*    and NaN is [0, 0], so that every comparison with NaN is false;       *)
(*    a distance that needs a square root is carried as its square.        *)
(*  - state.stats (monotone observability counters) and the debug output   *)
(*    are left out: nothing reads them back.                               *)
(***************************************************************************)
EXTENDS Integers, Sequences, FiniteSets, TLC

VARIABLES
    detector,           \* module-level `detector` is not null
    options,            \* mergedConfig handed to createCollisionDetector
    alarmActive,        \* state.alarmActive
    collisions,         \* state.collisions: vesselId -> threat record
    previousPositions,  \* state.previousPositions: vesselId -> {position, timestamp}
    callCount,          \* state.callCount, kept modulo CLEANUP_FREQUENCY
    now,                \* Date.now(), seconds
    last                \* log of the last operation: inputs fetched, exit, events sent

vars == <<detector, options, alarmActive, collisions, previousPositions,
          callCount, now, last>>

-----------------------------------------------------------------------------
(* Bounds of the model.                                                    *)

\* number of clock steps explored
MaxTicks == 1
\* DETECTION.VESSEL_TRACKING_LIMIT (1000 in the code), scaled to the fleet
VESSEL_TRACKING_LIMIT == 1
\* DETECTION.CLEANUP_FREQUENCY (100 in the code), scaled
CLEANUP_FREQUENCY == 2

-----------------------------------------------------------------------------
(* Program constants.                                                      *)

\* 1 / DETECTION.RELATIVE_VELOCITY_FLOOR (0.01 m/s)
RELATIVE_VELOCITY_FLOOR_INV == 100
MAX_VESSEL_SPEED_MPS == 30
\* DETECTION.JUMP_SPEED_FACTOR (1.5) times ten
JUMP_SPEED_FACTOR_X10 == 15
LAT_BOUND == 90
LON_BOUND == 180
\* GEO.MEAN_RADIUS_M * GEO.ANGLE_TO_RAD, metres of arc per degree
MetresPerDegree == 111195
\* 2 * Math.PI in quarter turns
TWO_PI == 4
\* tolerated clock skew of isDataFresh, seconds
CLOCK_SKEW == 60
\* seconds per minute (tcpaSeconds / 60)
SECONDS_PER_MINUTE == 60
\* GEO.TO_DEGREES applied to one quarter turn
DEGREES_PER_QUARTER == 90
\* metres per nautical mile (rangeNauticalMiles * 1852)
NM_TO_METERS == 1852

-----------------------------------------------------------------------------
(* JavaScript values.                                                      *)

Num(n) == [t |-> "num", v |-> n]
JSNull == [t |-> "null", v |-> 0]
JSUndefined == [t |-> "undefined", v |-> 0]
JSNaN == [t |-> "NaN", v |-> 0]
\* the number Infinity
JSInfinity == [t |-> "Infinity", v |-> 0]

\* x === undefined || x === null
IsNullish(x) == x.t \in {"null", "undefined"}
\* isNaN(x) for a value that is not null (isNaN(undefined) is true)
IsNaN(x) == x.t \in {"NaN", "undefined"}
\* x is Infinity
IsInfinite(x) == x.t = "Infinity"

\* the `null` returned by getVesselData, checkCPACollision, ...
NULL == [null |-> TRUE]
IsNull(x) == "null" \in DOMAIN x

Abs(n) == IF n < 0 THEN -n ELSE n
Sq(n) == n * n

\* a fraction n/d, d >= 0; Infinity is 1/0
Frac(n, d) == [n |-> n, d |-> d]
Infinity == Frac(1, 0)
NaN == Frac(0, 0)
\* a relative speed that is NaN or Infinity, whichever the products gave
NotFinite == [notFinite |-> TRUE]
\* q >= k in the place of q > k (a faulty variant)
FracGT_OrEqual(q, k) == q.n >= k * q.d

\* q > k for an integer k
FracGT(q, k) == q.n > k * q.d

Position(lat, lon) == [latitude |-> lat, longitude |-> lon]

\* Math.sin / Math.cos of k quarter turns
SinQ(k) == CASE k % 4 = 0 -> 0 [] k % 4 = 1 -> 1 [] k % 4 = 2 -> 0 [] OTHER -> -1
CosQ(k) == CASE k % 4 = 0 -> 1 [] k % 4 = 1 -> 0 [] k % 4 = 2 -> -1 [] OTHER -> 0

-----------------------------------------------------------------------------
(* Pure utility functions.                                                 *)

\* haversineDistance(from, to), squared
haversineDistanceSq(from, to) ==
    Sq(to.latitude - from.latitude) + Sq(to.longitude - from.longitude)

\* calculateDistance(from, to), squared; positions that reach it are numeric
calculateDistanceSq(from, to) == haversineDistanceSq(from, to)

\* relSpeed < DETECTION.RELATIVE_VELOCITY_FLOOR with >= in the place of < (a
\* faulty variant)
belowVelocityFloor_Inverted(relSpeedSq) ==
    relSpeedSq * Sq(RELATIVE_VELOCITY_FLOOR_INV) >= 1

\* calculateCPA: relSpeed < DETECTION.RELATIVE_VELOCITY_FLOOR, on the squares
belowVelocityFloor(relSpeedSq) ==
    relSpeedSq * Sq(RELATIVE_VELOCITY_FLOOR_INV) < 1

\* tcpaSeconds <= 0 in the place of tcpaSeconds < 0 (a faulty variant)
negativeTcpa_OrZero(tcpaN) == tcpaN <= 0

\* calculateCPA: tcpaSeconds < 0, on the numerator of tcpaSeconds (its
\* denominator is positive)
negativeTcpa(tcpaN) == tcpaN < 0

\* the relative position at the current time in the place of the closest
\* point of approach (a faulty variant)
cpaPoint_Current(relPos, relVel, tcpaN, relSpeedSq) == relPos * relSpeedSq

\* calculateCPA: cpaX = relPosX + relVelX * tcpaSeconds, times relSpeedSq
cpaPoint(relPos, relVel, tcpaN, relSpeedSq) == relPos * relSpeedSq + relVel * tcpaN

calculateCPA(vessel1, vessel2) ==
    IF \/ IsNullish(vessel1.course) \/ IsNaN(vessel1.course)
       \/ IsNullish(vessel2.course) \/ IsNaN(vessel2.course)
       \/ IsNullish(vessel1.speed) \/ IsNaN(vessel1.speed)
       \/ IsNullish(vessel2.speed) \/ IsNaN(vessel2.speed)
    THEN NULL
    \* An infinite speed makes each velocity component of its vessel Infinity
    \* or NaN (Infinity * 0), an infinite course makes them NaN; tcpaSeconds is
    \* then a quotient of two such values, hence NaN, no comparison below
    \* holds, and the last return is taken with cpaX, cpaY NaN.
    ELSE IF \/ IsInfinite(vessel1.course) \/ IsInfinite(vessel2.course)
            \/ IsInfinite(vessel1.speed) \/ IsInfinite(vessel2.speed)
    THEN [cpaDistanceSq |-> NaN,
          tcpaSeconds |-> NaN,
          diverging |-> FALSE,
          relativeSpeedSq |-> NotFinite,
          parallelCourse |-> FALSE]
    ELSE
    LET v1x == vessel1.speed.v * SinQ(vessel1.course.v)
        v1y == vessel1.speed.v * CosQ(vessel1.course.v)
        v2x == vessel2.speed.v * SinQ(vessel2.course.v)
        v2y == vessel2.speed.v * CosQ(vessel2.course.v)
        relVelX == v2x - v1x
        relVelY == v2y - v1y
        relSpeedSq == relVelX * relVelX + relVelY * relVelY
        relPosX == vessel2.position.longitude - vessel1.position.longitude
        relPosY == vessel2.position.latitude - vessel1.position.latitude
        \* tcpaSeconds = tcpaN / relSpeedSq
        tcpaN == -(relPosX * relVelX + relPosY * relVelY)
        \* (cpaX, cpaY) * relSpeedSq
        cpaXn == cpaPoint(relPosX, relVelX, tcpaN, relSpeedSq)
        cpaYn == cpaPoint(relPosY, relVelY, tcpaN, relSpeedSq)
    IN  IF belowVelocityFloor(relSpeedSq)
        THEN [cpaDistanceSq |-> Frac(relPosX * relPosX + relPosY * relPosY, 1),
              tcpaSeconds |-> Infinity,
              diverging |-> FALSE,
              relativeSpeedSq |-> 0,
              parallelCourse |-> TRUE]
        ELSE IF negativeTcpa(tcpaN)
        THEN [cpaDistanceSq |-> Infinity,
              tcpaSeconds |-> Frac(0, 1),
              diverging |-> TRUE,
              relativeSpeedSq |-> relSpeedSq,
              parallelCourse |-> FALSE]
        ELSE [cpaDistanceSq |-> Frac(cpaXn * cpaXn + cpaYn * cpaYn, Sq(relSpeedSq)),
              tcpaSeconds |-> Frac(tcpaN, relSpeedSq),
              diverging |-> FALSE,
              relativeSpeedSq |-> relSpeedSq,
              parallelCourse |-> FALSE]

\* validateVesselUpdate(vesselData, options).errors
validateVesselUpdate(vesselData) ==
    LET lat == vesselData.position.latitude
        lon == vesselData.position.longitude
        latErr == IF Abs(lat) > LAT_BOUND * MetresPerDegree
                  THEN <<"Latitude out of bounds">> ELSE <<>>
        lonErr == IF Abs(lon) > LON_BOUND * MetresPerDegree
                  THEN <<"Longitude out of bounds">> ELSE <<>>
        speedErr == IF IsNullish(vesselData.speed) THEN <<>>
                    ELSE IF IsNaN(vesselData.speed) THEN <<"Invalid speed: NaN">>
                    ELSE IF vesselData.speed.v < 0 THEN <<"Negative speed">>
                    ELSE <<>>
        courseErr == IF IsNullish(vesselData.course) THEN <<>>
                     ELSE IF IsNaN(vesselData.course) THEN <<"Invalid course: NaN">>
                     ELSE IF \/ vesselData.course.v < 0
                             \/ vesselData.course.v > TWO_PI
                             \/ IsInfinite(vesselData.course)
                     THEN <<"Course out of range">>
                     ELSE <<>>
    IN  latErr \o lonErr \o speedErr \o courseErr

\* detectPositionJump with >= in the place of > (a faulty variant)
detectPositionJump_OrEqual(vesselData, previousData) ==
    LET distanceSq == haversineDistanceSq(previousData.position, vesselData.position)
        timeDelta == vesselData.timestamp - previousData.timestamp
        maxAllowedSpeed == (MAX_VESSEL_SPEED_MPS * JUMP_SPEED_FACTOR_X10) \div 10
    IN  IF IsNull(previousData) THEN FALSE
        ELSE IF IsNull(previousData.position) \/ previousData.timestamp = 0 THEN FALSE
        ELSE IF IsNull(vesselData.position) \/ vesselData.timestamp = 0 THEN FALSE
        ELSE IF timeDelta <= 0 THEN FALSE
        ELSE distanceSq >= Sq(maxAllowedSpeed * timeDelta)

\* detectPositionJump(vesselData, previousData).jumped; a missing position is
\* NULL, a missing timestamp 0; the positions that are there are numeric, so
\* that the distance is
detectPositionJump(vesselData, previousData) ==
    LET distanceSq == haversineDistanceSq(previousData.position, vesselData.position)
        timeDelta == vesselData.timestamp - previousData.timestamp
        maxAllowedSpeed == (MAX_VESSEL_SPEED_MPS * JUMP_SPEED_FACTOR_X10) \div 10
    IN  IF IsNull(previousData) THEN FALSE
        ELSE IF IsNull(previousData.position) \/ previousData.timestamp = 0 THEN FALSE
        ELSE IF IsNull(vesselData.position) \/ vesselData.timestamp = 0 THEN FALSE
        ELSE IF timeDelta <= 0 THEN FALSE
        \* impliedSpeed = distance / timeDelta > maxAllowedSpeed
        ELSE distanceSq > Sq(maxAllowedSpeed * timeDelta)

-----------------------------------------------------------------------------
(* The fleet, the host application and the inputs of the model.            *)

\* app.selfId
OwnId == "own"
\* identifiers of the other vessels
Vessels == {"A", "B"}
Ids == Vessels \cup {OwnId}

\* `vessels.${id}`; a context is the sequence of its dot-separated parts
Context(id) == <<"vessels", id>>
\* context.split('.').pop()
LastPart(context) == context[Len(context)]

\* the options the plugin is started with (plugin.schema)
ValidUserOptions ==
    [safePassingDistanceMeters |-> Num(50),
     alarmHysteresisMeters |-> Num(20),
     timeWindowMinutes |-> Num(1),
     rangeNauticalMiles |-> Num(1),
     timeouts |-> [PosFreshBefore |-> Num(60)]]
\* options with one value out of range, with two, with every value out of
\* range or not a number
InvalidUserOptions ==
    {[ValidUserOptions EXCEPT !.safePassingDistanceMeters = Num(0)],
     [ValidUserOptions EXCEPT !.alarmHysteresisMeters = Num(-1)],
     [ValidUserOptions EXCEPT !.timeWindowMinutes = Num(0),
                              !.rangeNauticalMiles = Num(-1)],
     [ValidUserOptions EXCEPT !.timeouts = [PosFreshBefore |-> Num(0)]],
     [safePassingDistanceMeters |-> JSNaN,
      alarmHysteresisMeters |-> JSNull,
      timeWindowMinutes |-> Num(-1),
      rangeNauticalMiles |-> Num(0),
      timeouts |-> [PosFreshBefore |-> JSNaN]]}
UserOptions == {ValidUserOptions} \cup InvalidUserOptions

\* the clock at module load, and one step of it: just past the freshness limit,
\* so that a snapshot that was as old as the limit allows is, one step later,
\* just past twice the limit, the age at which cleanupStalePositions evicts
Epoch == 1000
TickSeconds == ValidUserOptions.timeouts.PosFreshBefore.v + 1

\* app.getPath throwing instead of returning
Throws == [throws |-> TRUE]
IsThrow(x) == "throws" \in DOMAIN x

\* snapshots, as getVesselData returns them
Snapshot(pos, course, speed, ts) ==
    [position |-> pos, course |-> course, speed |-> speed, timestamp |-> ts]

Origin == Position(0, 0)
StandingStill == <<Num(0), Num(0)>>
Closing == <<Num(2), Num(1)>>
Diverging == <<Num(0), Num(1)>>
NoMotion == <<JSNull, JSNull>>
\* Positions are latitude (north), longitude (east) from the own vessel at the
\* origin; with the own vessel standing still a target closing due south from
\* (60, x) has cpaDistance x and tcpaSeconds 60.
AtEntryThreshold == Position(60, 50)   \* cpaDistance = safe passing distance
InHysteresisBand == Position(60, 60)   \* between the two thresholds
BeyondThresholds == Position(60, 80)   \* cpaDistance beyond both; 100 m away
BeyondTimeWindow == Position(61, 50)   \* tcpaSeconds 61, one past the window
AtMaxRange == Position(1852, 0)        \* exactly 1 nm away
OutOfRange == Position(6000, 0)
\* With the own vessel under way on the target's course and speed the pair is
\* on parallel courses and keeps its separation.
AbeamAtThreshold == Position(30, 40)   \* 50 m away: the safe passing distance
AbeamInBand == Position(42, 56)        \* 70 m away: safe distance + hysteresis

Moving(p, motion, t) == Snapshot(p, motion[1], motion[2], t)

\* what the host can hold for the own vessel at time t
SelfSnaps(t) ==
    {NULL,
     Moving(Origin, StandingStill, t),
     Moving(Origin, StandingStill, t - TickSeconds),
     Snapshot(Origin, Num(0), Num(-1), t),
     Moving(Origin, NoMotion, t)}

\* what the host can hold for a target at time t; vessel "A" is the one the
\* cases are played on, the others supply a second threat and a second track
TargetSnaps(id, t) ==
    {NULL,
     Moving(AtEntryThreshold, Closing, t - TickSeconds),
     Moving(AtEntryThreshold, Closing, t)}
    \cup
    IF id # "A" THEN {}
    ELSE {Moving(AtEntryThreshold, Closing, t - ValidUserOptions.timeouts.PosFreshBefore.v),
          Moving(OutOfRange, Closing, t),
          Snapshot(AtEntryThreshold, Num(2), Num(-1), t),
          Moving(InHysteresisBand, Closing, t),
          Moving(BeyondThresholds, Closing, t),
          Moving(BeyondTimeWindow, Closing, t),
          Moving(AtEntryThreshold, Diverging, t),
          Moving(AtEntryThreshold, StandingStill, t),
          Moving(AtEntryThreshold, NoMotion, t),
          Moving(BeyondThresholds, NoMotion, t),
          Moving(AtMaxRange, Closing, t)}

\* the targets tried against an own vessel without course and speed
TargetSnapsNoCourse(id, t) ==
    {Moving(AtEntryThreshold, Closing, t)}
    \cup IF id # "A" THEN {}
         ELSE {Moving(BeyondThresholds, Closing, t), Moving(OutOfRange, Closing, t)}

\* what the host can hold for a vessel that is not the one reported
OtherSnaps(t) ==
    {NULL, Moving(AtEntryThreshold, Closing, t),
     Moving(AtEntryThreshold, Closing, t - TickSeconds)}

NotFetched == [notFetched |-> TRUE]
WasFetched(x) == "notFetched" \notin DOMAIN x

-----------------------------------------------------------------------------
(* createCollisionDetector: the detector's functions. A detector state s   *)
(* is [alarmActive, collisions, previousPositions, callCount] with the     *)
(* logs `events` (values handed to app.handleMessage, in order) and        *)
(* `positionSweeps` (runs of cleanupStalePositions); `sinkThrows` says     *)
(* whether app.handleMessage throws during the call, and `rejected` logs   *)
(* the values it threw on.                                                 *)

\* getVesselData: try { ... } catch (error) { return null; }
Provided(x) == IF IsThrow(x) THEN NULL ELSE x

\* getVesselData answering a failure of app.getPath with a position at the
\* origin, taken now (a faulty variant)
getVesselData_Placeholder(env, vesselContext) ==
    IF IsThrow(env[LastPart(vesselContext)])
    THEN Snapshot(Origin, JSNull, JSNull, now)
    ELSE env[LastPart(vesselContext)]

\* app.getPath behind getVesselData: env maps an identifier to its snapshot,
\* or to Throws
getVesselData(env, vesselContext) == Provided(env[LastPart(vesselContext)])

\* isDataFresh with the two ends of the window left out (a faulty variant)
isDataFresh_OpenWindow(vesselData) ==
    IF IsNull(vesselData) THEN FALSE
    ELSE IF vesselData.timestamp = 0 THEN FALSE
    ELSE LET age == now - vesselData.timestamp
         IN  age > -CLOCK_SKEW /\ age < options.timeouts.PosFreshBefore

\* isDataFresh without the upper limit on the age (a faulty variant)
isDataFresh_AnyAge(vesselData) ==
    IF IsNull(vesselData) THEN FALSE
    ELSE IF vesselData.timestamp = 0 THEN FALSE
    ELSE now - vesselData.timestamp >= -CLOCK_SKEW

isDataFresh(vesselData) ==
    IF IsNull(vesselData) THEN FALSE
    ELSE IF vesselData.timestamp = 0 THEN FALSE
    ELSE LET age == now - vesselData.timestamp
         IN  age >= -CLOCK_SKEW /\ age <= options.timeouts.PosFreshBefore

\* validateVesselData accepting whatever has a position (a faulty variant)
validateVesselData_Lenient(vesselData) == ~IsNull(vesselData)

validateVesselData(vesselData) ==
    IF IsNull(vesselData) THEN FALSE
    ELSE validateVesselUpdate(vesselData) = <<>>

\* the own vessel's snapshot lets the evaluation go on to the target
SelfPasses(ss) == ~IsNull(ss) /\ isDataFresh(ss) /\ validateVesselData(ss)

Without(f, k) == [x \in DOMAIN f \ {k} |-> f[x]]
With(f, k, val) == [x \in DOMAIN f \cup {k} |-> IF x = k THEN val ELSE f[x]]

\* publishCollisionNotification sending the activation without the threats (a
\* faulty variant)
publishCollisionNotification_NoThreats(s, isActive) ==
    LET notificationValue ==
            IF isActive
            THEN [state |-> "alarm", threats |-> <<>>]
            ELSE [state |-> "normal"]
    IN  [s EXCEPT !.events = Append(@, notificationValue)]

\* the value handed to app.handleMessage at notifications.danger.collision;
\* try { app.handleMessage(...) } catch (err) { app.error(...) }
publishCollisionNotification(s, isActive) ==
    LET notificationValue ==
            IF isActive
            THEN [state |-> "alarm", threats |-> s.collisions]
            ELSE [state |-> "normal"]
    IN  IF s.sinkThrows
        THEN [s EXCEPT !.rejected = Append(@, notificationValue)]
        ELSE [s EXCEPT !.events = Append(@, notificationValue)]

\* updateAlarmState publishing whenever the alarm should be active, without
\* looking at state.alarmActive (a faulty variant)
updateAlarmState_Polled(s, shouldBeActive) ==
    IF shouldBeActive
    THEN publishCollisionNotification([s EXCEPT !.alarmActive = TRUE], TRUE)
    ELSE IF ~shouldBeActive /\ s.alarmActive
    THEN publishCollisionNotification([s EXCEPT !.alarmActive = FALSE], FALSE)
    ELSE s

\* updateAlarmState publishing first and changing state.alarmActive only if
\* app.handleMessage did not throw (a faulty variant)
updateAlarmState_AfterPublish(s, shouldBeActive) ==
    IF shouldBeActive /\ ~s.alarmActive
    THEN [publishCollisionNotification(s, TRUE) EXCEPT
            !.alarmActive = ~s.sinkThrows]
    ELSE IF ~shouldBeActive /\ s.alarmActive
    THEN [publishCollisionNotification(s, FALSE) EXCEPT
            !.alarmActive = s.sinkThrows]
    ELSE s

updateAlarmState(s, shouldBeActive) ==
    IF shouldBeActive /\ ~s.alarmActive
    THEN publishCollisionNotification([s EXCEPT !.alarmActive = TRUE], TRUE)
    ELSE IF ~shouldBeActive /\ s.alarmActive
    THEN publishCollisionNotification([s EXCEPT !.alarmActive = FALSE], FALSE)
    ELSE s

\* removeCollision leaving the record in place (a faulty variant)
removeCollision_Keeps(s, vesselId) == s

\* removeCollision deleting the record without updateAlarmState (a faulty variant)
removeCollision_NoUpdate(s, vesselId) ==
    [s EXCEPT !.collisions = Without(@, vesselId)]

\* removeCollision emptying the threat set (a faulty variant)
removeCollision_ClearsAll(s, vesselId) ==
    IF vesselId \in DOMAIN s.collisions
    THEN LET s1 == [s EXCEPT !.collisions = <<>>]
         IN  updateAlarmState(s1, DOMAIN s1.collisions # {})
    ELSE s

removeCollision(s, vesselId) ==
    IF vesselId \in DOMAIN s.collisions
    THEN LET s1 == [s EXCEPT !.collisions = Without(@, vesselId)]
         IN  updateAlarmState(s1, DOMAIN s1.collisions # {})
    ELSE s

cleanupStalePositions(s) ==
    LET maxAge == options.timeouts.PosFreshBefore * 2
        stale == {id \in DOMAIN s.previousPositions :
                    /\ s.previousPositions[id].timestamp # 0
                    /\ now - s.previousPositions[id].timestamp > maxAge}
    IN  [s EXCEPT !.previousPositions = [id \in DOMAIN @ \ stale |-> @[id]],
                  !.positionSweeps = @ + 1]

\* cleanupStaleCollisions leaving every record in place (a faulty variant)
cleanupStaleCollisions_Keeps(s, env) == s

\* cleanupStaleCollisions publishing the alarm state after every removal,
\* changed or not (a faulty variant)
cleanupStaleCollisions_Republishes(s, env) ==
    LET stale == {id \in DOMAIN s.collisions :
                    LET vesselData == getVesselData(env, Context(id))
                    IN  IsNull(vesselData) \/ ~isDataFresh(vesselData)}
        s1 == [s EXCEPT !.collisions = [id \in DOMAIN @ \ stale |-> @[id]]]
    IN  IF stale # {}
        THEN publishCollisionNotification(
                 [s1 EXCEPT !.alarmActive = DOMAIN s1.collisions # {}],
                 DOMAIN s1.collisions # {})
        ELSE s

cleanupStaleCollisions(s, env) ==
    LET stale == {id \in DOMAIN s.collisions :
                    LET vesselData == getVesselData(env, Context(id))
                    IN  IsNull(vesselData) \/ ~isDataFresh(vesselData)}
        s1 == [s EXCEPT !.collisions = [id \in DOMAIN @ \ stale |-> @[id]]]
    IN  IF stale # {}
        THEN updateAlarmState(s1, DOMAIN s1.collisions # {})
        ELSE s

\* checkPositionJump clearing the vessel's threat when it reports a jump (a
\* faulty variant)
checkPositionJump_ClearsThreat(s, vesselId, currentData) ==
    IF /\ vesselId \in DOMAIN s.previousPositions
       /\ detectPositionJump(currentData, s.previousPositions[vesselId])
    THEN [jumped |-> TRUE, s |-> removeCollision(s, vesselId)]
    ELSE
    LET entry == [position |-> currentData.position,
                  timestamp |-> currentData.timestamp]
        atLimit == /\ Cardinality(DOMAIN s.previousPositions) >= VESSEL_TRACKING_LIMIT
                   /\ vesselId \notin DOMAIN s.previousPositions
        s1 == IF atLimit THEN cleanupStalePositions(s) ELSE s
    IN  IF atLimit /\ Cardinality(DOMAIN s1.previousPositions) >= VESSEL_TRACKING_LIMIT
        THEN [jumped |-> FALSE, s |-> s1]
        ELSE [jumped |-> FALSE,
              s |-> [s1 EXCEPT !.previousPositions = With(@, vesselId, entry)]]

\* checkPositionJump storing the position whatever the number of tracked
\* vessels (a faulty variant)
checkPositionJump_NoLimit(s, vesselId, currentData) ==
    IF /\ vesselId \in DOMAIN s.previousPositions
       /\ detectPositionJump(currentData, s.previousPositions[vesselId])
    THEN [jumped |-> TRUE, s |-> s]
    ELSE [jumped |-> FALSE,
          s |-> [s EXCEPT !.previousPositions =
                    With(@, vesselId, [position |-> currentData.position,
                                       timestamp |-> currentData.timestamp])]]

\* checkPositionJump ending the evaluation when the store stays full (a faulty
\* variant)
checkPositionJump_AbortsAtLimit(s, vesselId, currentData) ==
    IF /\ vesselId \in DOMAIN s.previousPositions
       /\ detectPositionJump(currentData, s.previousPositions[vesselId])
    THEN [jumped |-> TRUE, s |-> s]
    ELSE
    LET entry == [position |-> currentData.position,
                  timestamp |-> currentData.timestamp]
        atLimit == /\ Cardinality(DOMAIN s.previousPositions) >= VESSEL_TRACKING_LIMIT
                   /\ vesselId \notin DOMAIN s.previousPositions
        s1 == IF atLimit THEN cleanupStalePositions(s) ELSE s
    IN  IF atLimit /\ Cardinality(DOMAIN s1.previousPositions) >= VESSEL_TRACKING_LIMIT
        THEN [jumped |-> TRUE, s |-> s1]
        ELSE [jumped |-> FALSE,
              s |-> [s1 EXCEPT !.previousPositions = With(@, vesselId, entry)]]

\* checkPositionJump storing the position it reports as a jump (a faulty
\* variant)
checkPositionJump_StoresJump(s, vesselId, currentData) ==
    IF /\ vesselId \in DOMAIN s.previousPositions
       /\ detectPositionJump(currentData, s.previousPositions[vesselId])
    THEN [jumped |-> TRUE,
          s |-> [s EXCEPT !.previousPositions =
                    With(@, vesselId, [position |-> currentData.position,
                                       timestamp |-> currentData.timestamp])]]
    ELSE
    LET entry == [position |-> currentData.position,
                  timestamp |-> currentData.timestamp]
        atLimit == /\ Cardinality(DOMAIN s.previousPositions) >= VESSEL_TRACKING_LIMIT
                   /\ vesselId \notin DOMAIN s.previousPositions
        s1 == IF atLimit THEN cleanupStalePositions(s) ELSE s
    IN  IF atLimit /\ Cardinality(DOMAIN s1.previousPositions) >= VESSEL_TRACKING_LIMIT
        THEN [jumped |-> FALSE, s |-> s1]
        ELSE [jumped |-> FALSE,
              s |-> [s1 EXCEPT !.previousPositions = With(@, vesselId, entry)]]

\* checkPositionJump forgetting the stored position when it reports a jump (a
\* faulty variant)
checkPositionJump_ForgetsOnJump(s, vesselId, currentData) ==
    IF /\ vesselId \in DOMAIN s.previousPositions
       /\ detectPositionJump(currentData, s.previousPositions[vesselId])
    THEN [jumped |-> TRUE,
          s |-> [s EXCEPT !.previousPositions = Without(@, vesselId)]]
    ELSE
    LET entry == [position |-> currentData.position,
                  timestamp |-> currentData.timestamp]
        atLimit == /\ Cardinality(DOMAIN s.previousPositions) >= VESSEL_TRACKING_LIMIT
                   /\ vesselId \notin DOMAIN s.previousPositions
        s1 == IF atLimit THEN cleanupStalePositions(s) ELSE s
    IN  IF atLimit /\ Cardinality(DOMAIN s1.previousPositions) >= VESSEL_TRACKING_LIMIT
        THEN [jumped |-> FALSE, s |-> s1]
        ELSE [jumped |-> FALSE,
              s |-> [s1 EXCEPT !.previousPositions = With(@, vesselId, entry)]]

\* returns [jumped, s]
checkPositionJump(s, vesselId, currentData) ==
    IF /\ vesselId \in DOMAIN s.previousPositions
       /\ detectPositionJump(currentData, s.previousPositions[vesselId])
    THEN [jumped |-> TRUE, s |-> s]
    ELSE
    LET entry == [position |-> currentData.position,
                  timestamp |-> currentData.timestamp]
        atLimit == /\ Cardinality(DOMAIN s.previousPositions) >= VESSEL_TRACKING_LIMIT
                   /\ vesselId \notin DOMAIN s.previousPositions
        s1 == IF atLimit THEN cleanupStalePositions(s) ELSE s
    IN  IF atLimit /\ Cardinality(DOMAIN s1.previousPositions) >= VESSEL_TRACKING_LIMIT
        THEN [jumped |-> FALSE, s |-> s1]
        ELSE [jumped |-> FALSE,
              s |-> [s1 EXCEPT !.previousPositions = With(@, vesselId, entry)]]

\* the CPA threshold without the hysteresis margin (a faulty variant)
threshold_NoHysteresis(s) == options.safePassingDistanceMeters

\* the CPA threshold with the hysteresis margin whatever the alarm state (a
\* faulty variant)
threshold_AlwaysWide(s) ==
    options.safePassingDistanceMeters + options.alarmHysteresisMeters

\* the hysteresis subtracted from the threshold while the alarm is active (a
\* faulty variant)
threshold_Tightens(s) ==
    IF s.alarmActive
    THEN options.safePassingDistanceMeters - options.alarmHysteresisMeters
    ELSE options.safePassingDistanceMeters

\* the safe-passing distance doubled while the alarm is active (a faulty
\* variant)
threshold_Doubles(s) ==
    IF s.alarmActive
    THEN options.safePassingDistanceMeters * 2
    ELSE options.safePassingDistanceMeters

\* checkCPACollision: threshold
threshold(s) ==
    IF s.alarmActive
    THEN options.safePassingDistanceMeters + options.alarmHysteresisMeters
    ELSE options.safePassingDistanceMeters

\* the time-window check applied to parallel courses too (a faulty variant)
beyondTimeWindow_NoBypass(cpaResult, tcpaMinutes) ==
    FracGT(tcpaMinutes, options.timeWindowMinutes)

\* checkCPACollision: tcpaMinutes > options.timeWindowMinutes && !parallelCourse
beyondTimeWindow(cpaResult, tcpaMinutes) ==
    FracGT(tcpaMinutes, options.timeWindowMinutes) /\ ~cpaResult.parallelCourse

checkCPACollision(s, selfVessel, targetVessel) ==
    LET Collision(cpaResult, tcpaMinutes) ==
            IF FracGT(cpaResult.cpaDistanceSq, Sq(threshold(s))) THEN NULL
            ELSE IF beyondTimeWindow(cpaResult, tcpaMinutes) THEN NULL
            ELSE [method |-> "CPA",
                  cpaDistanceSq |-> cpaResult.cpaDistanceSq,
                  tcpaMinutes |-> tcpaMinutes,
                  relativeSpeedSq |-> cpaResult.relativeSpeedSq,
                  parallelCourse |-> cpaResult.parallelCourse,
                  distanceSq |-> calculateDistanceSq(selfVessel.position,
                                                     targetVessel.position),
                  targetCourse |-> targetVessel.course.v * DEGREES_PER_QUARTER,
                  targetSpeed |-> targetVessel.speed.v]
        Checked(cpaResult) ==
            IF IsNull(cpaResult) THEN NULL
            ELSE IF cpaResult.diverging THEN NULL
            ELSE Collision(cpaResult,
                           Frac(cpaResult.tcpaSeconds.n,
                                cpaResult.tcpaSeconds.d * SECONDS_PER_MINUTE))
    IN  Checked(calculateCPA(selfVessel, targetVessel))

HasCourse(vessel) ==
    /\ ~IsNullish(vessel.course) /\ ~IsNaN(vessel.course)
    /\ ~IsNullish(vessel.speed) /\ ~IsNaN(vessel.speed)

\* the fallback's threshold without the factor 2 (a faulty variant)
geometricThreshold_Single(s) ==
    IF s.alarmActive
    THEN options.safePassingDistanceMeters + options.alarmHysteresisMeters
    ELSE options.safePassingDistanceMeters

\* checkGeometricCollision: threshold
geometricThreshold(s) ==
    IF s.alarmActive
    THEN options.safePassingDistanceMeters * 2 + options.alarmHysteresisMeters
    ELSE options.safePassingDistanceMeters * 2

\* checkGeometricCollision applied whether or not both vessels have course and
\* speed (a faulty variant)
checkGeometricCollision_AnyCourse(s, selfVessel, targetVessel) ==
    LET distanceSq == calculateDistanceSq(selfVessel.position, targetVessel.position)
    IN  IF distanceSq < Sq(geometricThreshold(s))
        THEN [method |-> "GEOMETRIC", distanceSq |-> distanceSq,
              reason |-> "target missing COG/SOG"]
        ELSE NULL

checkGeometricCollision(s, selfVessel, targetVessel) ==
    LET selfHasCourse == HasCourse(selfVessel)
        targetHasCourse == HasCourse(targetVessel)
        distanceSq == calculateDistanceSq(selfVessel.position, targetVessel.position)
        reason == IF ~selfHasCourse THEN "own vessel missing COG/SOG"
                  ELSE "target missing COG/SOG"
    IN  IF selfHasCourse /\ targetHasCourse THEN NULL
        ELSE IF distanceSq < Sq(geometricThreshold(s))
        THEN [method |-> "GEOMETRIC", distanceSq |-> distanceSq, reason |-> reason]
        ELSE NULL

\* the range filter with >= in the place of > (a faulty variant)
beyondRange_Inclusive(distanceSq) == distanceSq >= Sq(options.rangeMeters)

\* checkCollisionForVessel: distance > options.rangeMeters (the distance of two
\* validated snapshots is never null)
beyondRange(distanceSq) == distanceSq > Sq(options.rangeMeters)

\* what an operation leaves in `last`
NoLog(op) ==
    [op |-> op,
     vessel |-> "",            \* vesselId of the evaluation
     outcome |-> "",           \* where the evaluation ended
     who |-> "",               \* "self" or "target": whose snapshot ended it
     swept |-> FALSE,          \* the periodic cleanup ran in this call
     fresh |-> {},             \* threats whose data the sweep found available and fresh
     self |-> NotFetched,      \* getVesselData(state.selfFullContext)
     target |-> NotFetched,    \* getVesselData(targetVesselContext)
     midAlarm |-> FALSE,       \* state.alarmActive when the gates started
     events |-> <<>>,          \* values handed to app.handleMessage, in order
     sweepEvents |-> 0,        \* how many of them the periodic cleanup sent
     containsPosition |-> FALSE,  \* the delta carried a position update
     failed |-> {},            \* the vessels for which app.getPath threw
     config |-> <<>>,          \* the options plugin.start was called with
     pluginError |-> <<>>,     \* messages handed to app.setPluginError
     positionSweeps |-> 0,     \* runs of cleanupStalePositions
     rejected |-> <<>>]        \* values on which app.handleMessage threw

\* the periodic cleanup on every call (a faulty variant)
cleanupDue_EveryCall(count) == TRUE

\* checkCollisionForVessel: state.callCount % DETECTION.CLEANUP_FREQUENCY === 0
cleanupDue(count) == count % CLEANUP_FREQUENCY = 0

\* returns [s, log]; the stages of the evaluation are the operators of the LET,
\* each taking the state the stage before it left
checkCollisionForVessel(s0, targetVesselContext, env) ==
    LET vesselId == LastPart(targetVesselContext)
        selfVessel == getVesselData(env, Context(OwnId))
        targetVessel == getVesselData(env, targetVesselContext)
        Done(s, log, outcome, who) ==
            [s |-> s,
             log |-> [log EXCEPT !.outcome = outcome, !.who = who,
                                 !.events = s.events,
                                 !.rejected = s.rejected,
                                 !.positionSweeps = s.positionSweeps]]
        Updated(s) == updateAlarmState(s, DOMAIN s.collisions # {})
        \* collisionData, stored or deleted, and the alarm state brought up to date
        Classified(s, log, collision) ==
            IF IsNull(collision)
            THEN Done(Updated([s EXCEPT !.collisions = Without(@, vesselId)]),
                      log, "Safe", "target")
            ELSE Done(Updated([s EXCEPT !.collisions =
                                 With(@, vesselId,
                                      [f \in DOMAIN collision
                                             \cup {"vesselId", "position"} |->
                                         IF f = "vesselId" THEN vesselId
                                         ELSE IF f = "position"
                                         THEN targetVessel.position
                                         ELSE collision[f]])]),
                      log, "Threat", "target")
        \* checkCPACollision, then checkGeometricCollision if it found nothing
        Classify(s, log, cpa) ==
            IF IsNull(cpa)
            THEN Classified(s, log, checkGeometricCollision(s, selfVessel, targetVessel))
            ELSE Classified(s, log, cpa)
        \* after checkPositionJump: the range filter and the classification
        Tracked(jump, log) ==
            IF jump.jumped THEN Done(jump.s, log, "Jumped", "target")
            ELSE IF beyondRange(calculateDistanceSq(selfVessel.position,
                                                    targetVessel.position))
            THEN Done(removeCollision(jump.s, vesselId), log, "OutOfRange", "target")
            ELSE Classify(jump.s, log,
                          checkCPACollision(jump.s, selfVessel, targetVessel))
        \* the gates on the two snapshots
        Gates(s, log) ==
            IF IsNull(selfVessel) THEN Done(s, log, "NoData", "self")
            ELSE IF ~isDataFresh(selfVessel) THEN Done(s, log, "Stale", "self")
            ELSE IF ~validateVesselData(selfVessel) THEN Done(s, log, "Invalid", "self")
            ELSE IF IsNull(targetVessel)
            THEN Done(removeCollision(s, vesselId), log, "NoData", "target")
            ELSE IF ~isDataFresh(targetVessel)
            THEN Done(removeCollision(s, vesselId), log, "Stale", "target")
            ELSE IF ~validateVesselData(targetVessel)
            THEN Done(removeCollision(s, vesselId), log, "Invalid", "target")
            ELSE Tracked(checkPositionJump(s, vesselId, targetVessel), log)
        \* after the periodic cleanup, if it was due
        Swept(s, swept) ==
            Gates(s, [NoLog("check") EXCEPT
                        !.vessel = vesselId,
                        !.swept = swept,
                        !.fresh = IF swept
                                  THEN {id \in DOMAIN s0.collisions :
                                          isDataFresh(getVesselData(env, Context(id)))}
                                  ELSE {},
                        !.failed = {id \in DOMAIN env : IsThrow(env[id])},
                        !.self = selfVessel,
                        !.target = IF SelfPasses(selfVessel) THEN targetVessel
                                   ELSE NotFetched,
                        !.midAlarm = s.alarmActive,
                        !.sweepEvents = Len(s.events)])
        Counted(s) ==
            IF cleanupDue(s.callCount)
            THEN Swept(cleanupStaleCollisions(cleanupStalePositions(s), env), TRUE)
            ELSE Swept(s, FALSE)
    IN  IF Len(targetVesselContext) < 2 \/ LastPart(targetVesselContext) = "vessels"
        THEN [s |-> s0, log |-> [NoLog("check") EXCEPT !.outcome = "BadContext"]]
        ELSE Counted([s0 EXCEPT !.callCount = (@ + 1) % CLEANUP_FREQUENCY])

-----------------------------------------------------------------------------
(* Configuration validation and the plugin lifecycle.                      *)

\* validateOptions stopping at the first violated constraint (a faulty variant)
validateOptions_FirstOnly(userOptions) ==
    LET Bad(x, allowZero) ==
            /\ x.t # "undefined"
            /\ \/ x.t # "num"
               \/ IF allowZero THEN x.v < 0 ELSE x.v <= 0
    IN  IF Bad(userOptions.safePassingDistanceMeters, FALSE)
        THEN <<"safePassingDistanceMeters must be a positive number">>
        ELSE IF Bad(userOptions.alarmHysteresisMeters, TRUE)
        THEN <<"alarmHysteresisMeters must be a non-negative number">>
        ELSE IF Bad(userOptions.timeWindowMinutes, FALSE)
        THEN <<"timeWindowMinutes must be a positive number">>
        ELSE IF Bad(userOptions.rangeNauticalMiles, FALSE)
        THEN <<"rangeNauticalMiles must be a positive number">>
        ELSE IF Bad(userOptions.timeouts.PosFreshBefore, FALSE)
        THEN <<"timeouts.PosFreshBefore must be a positive number">>
        ELSE <<>>

\* validateOptions(options).errors
validateOptions(userOptions) ==
    LET Bad(x, allowZero) ==
            /\ x.t # "undefined"
            /\ \/ x.t # "num"
               \/ IF allowZero THEN x.v < 0 ELSE x.v <= 0
    IN  (IF Bad(userOptions.safePassingDistanceMeters, FALSE)
         THEN <<"safePassingDistanceMeters must be a positive number">> ELSE <<>>)
        \o (IF Bad(userOptions.alarmHysteresisMeters, TRUE)
            THEN <<"alarmHysteresisMeters must be a non-negative number">> ELSE <<>>)
        \o (IF Bad(userOptions.timeWindowMinutes, FALSE)
            THEN <<"timeWindowMinutes must be a positive number">> ELSE <<>>)
        \o (IF Bad(userOptions.rangeNauticalMiles, FALSE)
            THEN <<"rangeNauticalMiles must be a positive number">> ELSE <<>>)
        \o (IF Bad(userOptions.timeouts.PosFreshBefore, FALSE)
            THEN <<"timeouts.PosFreshBefore must be a positive number">> ELSE <<>>)

\* x ?? dflt
OrDefault(x, dflt) == IF IsNullish(x) THEN dflt ELSE x.v

mergedConfig(userOptions) ==
    [safePassingDistanceMeters |-> OrDefault(userOptions.safePassingDistanceMeters, 500),
     alarmHysteresisMeters |-> OrDefault(userOptions.alarmHysteresisMeters, 200),
     timeWindowMinutes |-> OrDefault(userOptions.timeWindowMinutes, 10),
     rangeMeters |-> OrDefault(userOptions.rangeNauticalMiles, 10) * NM_TO_METERS,
     timeouts |-> [PosFreshBefore |->
                     OrDefault(userOptions.timeouts.PosFreshBefore, 600)]]

\* no detector, no configuration
NoOptions ==
    [safePassingDistanceMeters |-> 0, alarmHysteresisMeters |-> 0,
     timeWindowMinutes |-> 0, rangeMeters |-> 0,
     timeouts |-> [PosFreshBefore |-> 0]]

\* the state createCollisionDetector starts from, and reset() returns to
FreshState ==
    [alarmActive |-> FALSE, collisions |-> <<>>, previousPositions |-> <<>>,
     callCount |-> 0, events |-> <<>>, positionSweeps |-> 0,
     sinkThrows |-> FALSE, rejected |-> <<>>]

\* reset leaving the position history in place (a faulty variant)
reset_KeepsPositions(s) ==
    [s EXCEPT !.alarmActive = FALSE, !.collisions = <<>>, !.callCount = 0]

\* detector.reset
reset(s) ==
    [s EXCEPT !.alarmActive = FALSE, !.collisions = <<>>,
              !.previousPositions = <<>>, !.callCount = 0]

\* the detector's state, as the functions above take it
Current ==
    [alarmActive |-> alarmActive, collisions |-> collisions,
     previousPositions |-> previousPositions, callCount |-> callCount,
     events |-> <<>>, positionSweeps |-> 0,
     sinkThrows |-> FALSE, rejected |-> <<>>]

Install(s) ==
    /\ alarmActive' = s.alarmActive
    /\ collisions' = s.collisions
    /\ previousPositions' = s.previousPositions
    /\ callCount' = s.callCount

\* plugin.start(options); the host starts a plugin that is not running
Start(userOptions) ==
    /\ ~detector
    /\ IF validateOptions(userOptions) # <<>>
       THEN /\ last' = [NoLog("start") EXCEPT
                          !.outcome = "ConfigurationError",
                          !.config = userOptions,
                          !.pluginError = <<validateOptions(userOptions)>>]
            /\ UNCHANGED <<detector, options, alarmActive, collisions,
                           previousPositions, callCount, now>>
       ELSE /\ detector' = TRUE
            /\ options' = mergedConfig(userOptions)
            /\ Install(FreshState)
            /\ last' = [NoLog("start") EXCEPT !.config = userOptions]
            /\ UNCHANGED now

\* plugin.stop() sending the clearing notification whatever the alarm state (a
\* faulty variant)
Stop_AlwaysClears ==
    /\ IF detector
       THEN LET s1 == [Current EXCEPT !.events = <<[state |-> "normal"]>>]
                s2 == reset(s1)
            IN  /\ Install(s2)
                /\ last' = [NoLog("stop") EXCEPT !.events = s2.events]
       ELSE /\ last' = NoLog("stop")
            /\ UNCHANGED <<alarmActive, collisions, previousPositions, callCount>>
    /\ detector' = FALSE
    /\ options' = NoOptions
    /\ UNCHANGED now

\* plugin.stop()
Stop ==
    /\ IF detector
       THEN LET s1 == IF alarmActive
                      THEN [Current EXCEPT !.events = <<[state |-> "normal"]>>]
                      ELSE Current
                s2 == reset(s1)
            IN  /\ Install(s2)
                /\ last' = [NoLog("stop") EXCEPT !.events = s2.events]
       ELSE /\ last' = NoLog("stop")
            /\ UNCHANGED <<alarmActive, collisions, previousPositions, callCount>>
    /\ detector' = FALSE
    /\ options' = NoOptions
    /\ UNCHANGED now

\* time passes
Tick ==
    /\ now < Epoch + MaxTicks * TickSeconds
    /\ now' = now + TickSeconds
    /\ last' = NoLog("tick")
    /\ UNCHANGED <<detector, options, alarmActive, collisions, previousPositions,
                   callCount>>

\* the detector's state and the log after an evaluation that returned r
Evaluated(r) ==
    /\ Install(r.s)
    /\ last' = r.log

Delta(context, updates, containsPosition) ==
    [context |-> context, updates |-> updates, containsPosition |-> containsPosition]

\* the deltas the subscription can deliver: a position report of each vessel, of
\* the own vessel under both its names, a report without a position, a delta
\* without updates, and contexts that name no vessel
Deltas ==
    {Delta(Context(id), TRUE, TRUE) : id \in Vessels \cup {"self", OwnId}}
    \cup {Delta(Context("A"), TRUE, FALSE), Delta(Context("A"), FALSE, FALSE),
          Delta(<<"vessels">>, TRUE, TRUE), Delta(<<>>, TRUE, TRUE)}

\* the position reports among them, with one for the own vessel and one whose
\* context names no vessel
PositionDeltas ==
    {Delta(Context(id), TRUE, TRUE) : id \in Vessels \cup {"self"}}
    \cup {Delta(<<"vessels">>, TRUE, TRUE)}

\* The host's data during one delivery, for the identifiers the handler reads:
\* the own vessel's snapshot ss, the reported vessel's ts, the other vessels' os.
\* What it does not read is left null.
delivered(delta) ==
    /\ detector /\ delta.updates /\ delta.containsPosition
    /\ delta.context \in {Context(id) : id \in Vessels}
sweepDue == (callCount + 1) % CLEANUP_FREQUENCY = 0
TargetChoices(delta, ss) ==
    IF ~delivered(delta) THEN {NULL}
    ELSE IF SelfPasses(ss)
    THEN IF HasCourse(ss) THEN TargetSnaps(LastPart(delta.context), now)
         ELSE TargetSnapsNoCourse(LastPart(delta.context), now)
    ELSE IF sweepDue /\ LastPart(delta.context) \in DOMAIN collisions
    THEN OtherSnaps(now)
    ELSE {NULL}
OtherChoices(delta) ==
    IF ~delivered(delta) THEN {<<>>}
    ELSE IF sweepDue /\ DOMAIN collisions \ {LastPart(delta.context)} # {}
    THEN [Vessels \ {LastPart(delta.context)} -> OtherSnaps(now)]
    ELSE {[o \in Vessels \ {LastPart(delta.context)} |-> NULL]}
SelfChoices(delta) == IF delivered(delta) THEN SelfSnaps(now) ELSE {NULL}
EnvOf(delta, ss, ts, os) ==
    [id \in Ids |-> IF id = OwnId THEN ss
                    ELSE IF delta.context = Context(id) THEN ts
                    ELSE IF id \in DOMAIN os THEN os[id] ELSE NULL]

\* the own vessel recognised by its full context only (a faulty variant)
isOwnVessel_ByContextOnly(sourceContext) == sourceContext = Context(OwnId)

\* processDeltaMessage: isOwnVessel
isOwnVessel(sourceContext) ==
    \/ LastPart(sourceContext) = "self"
    \/ LastPart(sourceContext) = OwnId
    \/ sourceContext = Context(OwnId)

\* the delta as the log keeps it: the vessel it names, whether it carries a
\* position update
Received(log, delta) ==
    [log EXCEPT !.vessel = IF delta.context = <<>> THEN ""
                           ELSE LastPart(delta.context),
                !.containsPosition = delta.containsPosition]

\* processDeltaMessage(delta), with the host's data at that moment
processDeltaMessage(delta, env) ==
    LET sourceContext == delta.context
        Checked(r) == Evaluated([r EXCEPT !.log = Received(r.log, delta)])
    IN  IF \/ ~detector \/ ~delta.updates
           \/ sourceContext = <<>>
           \/ isOwnVessel(sourceContext)
           \/ ~delta.containsPosition
        THEN /\ last' = Received(NoLog("ignored"), delta)
             /\ UNCHANGED <<detector, options, alarmActive, collisions,
                            previousPositions, callCount, now>>
        ELSE /\ Checked(checkCollisionForVessel(Current, sourceContext, env))
             /\ UNCHANGED <<detector, options, now>>

Init ==
    /\ detector = FALSE
    /\ options = NoOptions
    /\ alarmActive = FALSE
    /\ collisions = <<>>
    /\ previousPositions = <<>>
    /\ callCount = 0
    /\ now = Epoch
    /\ last = NoLog("init")

Next ==
    \/ \E userOptions \in UserOptions : Start(userOptions)
    \/ Stop
    \/ Tick
    \/ \E delta \in PositionDeltas :
         \E ss \in SelfChoices(delta) :
           \E ts \in TargetChoices(delta, ss) :
             \E os \in OtherChoices(delta) :
               processDeltaMessage(delta, EnvOf(delta, ss, ts, os))

Spec == Init /\ [][Next]_vars

-----------------------------------------------------------------------------
(* The plugin with the own vessel under way: targets on its course and     *)
(* speed, abeam of it, and two time windows.                               *)

WindowOptions ==
    {ValidUserOptions, [ValidUserOptions EXCEPT !.timeWindowMinutes = Num(2)]}

SelfSnapsParallel(t) ==
    {NULL, Moving(Origin, Closing, t), Moving(Origin, StandingStill, t)}

\* against an own vessel under way: targets on its course and speed 50 m, 70 m
\* and 78 m away; against one standing still: targets standing still 50 m and
\* 70 m away, and one closing
TargetSnapsParallel(id, ss, t) ==
    IF id # "A" THEN {NULL, Snapshot(AbeamAtThreshold, ss.course, ss.speed, t)}
    ELSE {Snapshot(AbeamAtThreshold, ss.course, ss.speed, t),
          Snapshot(AbeamInBand, ss.course, ss.speed, t)}
         \cup {Moving(AtEntryThreshold, Closing, t)}

TargetChoicesParallel(delta, ss) ==
    IF delivered(delta) /\ SelfPasses(ss)
    THEN TargetSnapsParallel(LastPart(delta.context), ss, now)
    ELSE {NULL}
OtherChoicesParallel(delta) ==
    IF ~delivered(delta) THEN {<<>>}
    ELSE IF sweepDue /\ DOMAIN collisions \ {LastPart(delta.context)} # {}
    THEN [Vessels \ {LastPart(delta.context)}
            -> {NULL, Moving(AbeamAtThreshold, Closing, now)}]
    ELSE {[o \in Vessels \ {LastPart(delta.context)} |-> NULL]}
SelfChoicesParallel(delta) ==
    IF delivered(delta) THEN SelfSnapsParallel(now) ELSE {NULL}

NextParallel ==
    \/ \E userOptions \in WindowOptions : Start(userOptions)
    \/ Stop
    \/ Tick
    \/ \E delta \in PositionDeltas :
         \E ss \in SelfChoicesParallel(delta) :
           \E ts \in TargetChoicesParallel(delta, ss) :
             \E os \in OtherChoicesParallel(delta) :
               processDeltaMessage(delta, EnvOf(delta, ss, ts, os))

SpecParallel == Init /\ [][NextParallel]_vars

-----------------------------------------------------------------------------
(* The plugin under a host whose app.getPath can throw and whose           *)
(* subscription delivers every kind of delta.                              *)

SelfChoicesHost(delta) ==
    IF delivered(delta)
    THEN {Throws, NULL, Moving(Origin, StandingStill, now)}
    ELSE {NULL}
TargetChoicesHost(delta, ss) ==
    IF ~delivered(delta) THEN {NULL}
    ELSE IF SelfPasses(Provided(ss))
    THEN {Throws, NULL, Moving(AtEntryThreshold, Closing, now)}
    ELSE IF sweepDue /\ LastPart(delta.context) \in DOMAIN collisions
    THEN {Throws, Moving(AtEntryThreshold, Closing, now)}
    ELSE {NULL}
OtherChoicesHost(delta) ==
    IF ~delivered(delta) THEN {<<>>}
    ELSE IF sweepDue /\ DOMAIN collisions \ {LastPart(delta.context)} # {}
    THEN [Vessels \ {LastPart(delta.context)}
            -> {Throws, NULL, Moving(AtEntryThreshold, Closing, now)}]
    ELSE {[o \in Vessels \ {LastPart(delta.context)} |-> NULL]}

NextHost ==
    \/ \E userOptions \in UserOptions : Start(userOptions)
    \/ Stop
    \/ Tick
    \/ \E delta \in Deltas :
         \E ss \in SelfChoicesHost(delta) :
           \E ts \in TargetChoicesHost(delta, ss) :
             \E os \in OtherChoicesHost(delta) :
               processDeltaMessage(delta, EnvOf(delta, ss, ts, os))

SpecHost == Init /\ [][NextHost]_vars

-----------------------------------------------------------------------------
(* The plugin under a host that holds, for a target, a speed over ground   *)
(* of Infinity (validateVesselUpdate has no upper bound on the speed).     *)

Unbounded == <<Num(2), JSInfinity>>

TargetSnapsUnbounded(id, t) ==
    IF id # "A" THEN {NULL, Moving(AtEntryThreshold, Closing, t)}
    ELSE {Moving(AtEntryThreshold, Closing, t),
          Moving(BeyondThresholds, Closing, t),
          Moving(BeyondThresholds, Unbounded, t)}

SelfChoicesUnbounded(delta) ==
    IF delivered(delta) THEN {NULL, Moving(Origin, StandingStill, now)} ELSE {NULL}
TargetChoicesUnbounded(delta, ss) ==
    IF delivered(delta) /\ SelfPasses(ss)
    THEN TargetSnapsUnbounded(LastPart(delta.context), now)
    ELSE {NULL}
OtherChoicesUnbounded(delta) ==
    IF ~delivered(delta) THEN {<<>>}
    ELSE IF sweepDue /\ DOMAIN collisions \ {LastPart(delta.context)} # {}
    THEN [Vessels \ {LastPart(delta.context)}
            -> {NULL, Moving(AtEntryThreshold, Closing, now)}]
    ELSE {[o \in Vessels \ {LastPart(delta.context)} |-> NULL]}

NextUnbounded ==
    \/ \E userOptions \in UserOptions : Start(userOptions)
    \/ Stop
    \/ Tick
    \/ \E delta \in PositionDeltas :
         \E ss \in SelfChoicesUnbounded(delta) :
           \E ts \in TargetChoicesUnbounded(delta, ss) :
             \E os \in OtherChoicesUnbounded(delta) :
               processDeltaMessage(delta, EnvOf(delta, ss, ts, os))

SpecUnbounded == Init /\ [][NextUnbounded]_vars

-----------------------------------------------------------------------------
(* The plugin under a host that delivers a second delta for the vessel     *)
(* just evaluated while its data and the clock are what they were.         *)

\* what the evaluation described by log read for the target; where it did not
\* read it, what the host can hold
TargetChoicesAgain(log, delta) ==
    IF WasFetched(log.target) THEN {log.target}
    ELSE TargetChoices(delta, log.self)

\* processDeltaMessage for the vessel and with the snapshots of the last
\* evaluation
Reevaluate ==
    /\ detector
    /\ last.op = "check" /\ last.outcome # "BadContext"
    /\ LET delta == Delta(Context(last.vessel), TRUE, TRUE)
           Again(r) ==
               Evaluated([r EXCEPT !.log = [Received(r.log, delta)
                                              EXCEPT !.op = "recheck"]])
       IN  \E ts \in TargetChoicesAgain(last, delta) :
             \E os \in OtherChoices(delta) :
               Again(checkCollisionForVessel(
                         Current, delta.context,
                         EnvOf(delta, last.self, ts, os)))
    /\ UNCHANGED <<detector, options, now>>

NextAgain ==
    \/ \E userOptions \in UserOptions : Start(userOptions)
    \/ Stop
    \/ Tick
    \/ \E delta \in PositionDeltas :
         \E ss \in SelfChoices(delta) :
           \E ts \in TargetChoices(delta, ss) :
             \E os \in OtherChoices(delta) :
               processDeltaMessage(delta, EnvOf(delta, ss, ts, os))
    \/ Reevaluate

SpecAgain == Init /\ [][NextAgain]_vars

-----------------------------------------------------------------------------
(* The plugin under a host that delivers the position reports of two       *)
(* targets one after the other while its data and the clock stand still.   *)

\* what the host can hold for a target while the two reports are delivered
PairSnaps(t) ==
    {Moving(AtEntryThreshold, Closing, t),
     Moving(InHysteresisBand, Closing, t),
     Moving(BeyondThresholds, Closing, t),
     Moving(OutOfRange, Closing, t)}
PairSelfSnaps(t) == {Moving(Origin, StandingStill, t)}

\* the detector after checkCollisionForVessel for first, then for second, with
\* the host's data env
EvaluateInOrder(s, first, second, env) ==
    checkCollisionForVessel(
        checkCollisionForVessel(s, Context(first), env).s,
        Context(second), env).s

\* processDeltaMessage for A, then for B; the log keeps the state the
\* deliveries started from and the host's data
DeliverBoth ==
    /\ detector
    /\ \E ss \in PairSelfSnaps(now) :
         \E ta \in PairSnaps(now) :
           \E tb \in PairSnaps(now) :
             LET env == [id \in Ids |-> IF id = OwnId THEN ss
                                        ELSE IF id = "A" THEN ta ELSE tb]
             IN  /\ Install(EvaluateInOrder(Current, "A", "B", env))
                 /\ last' = [op |-> "pair", before |-> Current, env |-> env]
    /\ UNCHANGED <<detector, options, now>>

SelfChoicesPair(delta) ==
    IF delivered(delta) THEN {Moving(Origin, StandingStill, now)} ELSE {NULL}
TargetChoicesPair(delta) ==
    IF delivered(delta) THEN {Moving(AtEntryThreshold, Closing, now)} ELSE {NULL}
OtherChoicesPair(delta) ==
    IF ~delivered(delta) THEN {<<>>}
    ELSE {[o \in Vessels \ {LastPart(delta.context)} |->
             Moving(AtEntryThreshold, Closing, now)]}

NextPair ==
    \/ \E userOptions \in UserOptions : Start(userOptions)
    \/ Stop
    \/ Tick
    \/ \E delta \in PositionDeltas :
         \E ss \in SelfChoicesPair(delta) :
           \E ts \in TargetChoicesPair(delta) :
             \E os \in OtherChoicesPair(delta) :
               processDeltaMessage(delta, EnvOf(delta, ss, ts, os))
    \/ DeliverBoth

SpecPair == Init /\ [][NextPair]_vars

-----------------------------------------------------------------------------
(* The plugin under a host whose app.handleMessage can throw.              *)

\* processDeltaMessage(delta) while app.handleMessage throws
processDeltaMessageFailing(delta, env) ==
    LET sourceContext == delta.context
        Checked(r) == Evaluated([r EXCEPT !.log = Received(r.log, delta)])
    IN  IF \/ ~detector \/ ~delta.updates
           \/ sourceContext = <<>>
           \/ isOwnVessel(sourceContext)
           \/ ~delta.containsPosition
        THEN /\ last' = Received(NoLog("ignored"), delta)
             /\ UNCHANGED <<detector, options, alarmActive, collisions,
                            previousPositions, callCount, now>>
        ELSE /\ Checked(checkCollisionForVessel(
                            [Current EXCEPT !.sinkThrows = TRUE],
                            sourceContext, env))
             /\ UNCHANGED <<detector, options, now>>

\* plugin.stop() while app.handleMessage throws: the failure is caught and
\* logged with app.debug, and the detector is reset
StopFailing ==
    /\ IF detector
       THEN LET s1 == IF alarmActive
                      THEN [Current EXCEPT !.rejected = <<[state |-> "normal"]>>]
                      ELSE Current
                s2 == reset(s1)
            IN  /\ Install(s2)
                /\ last' = [NoLog("stop") EXCEPT !.rejected = s2.rejected]
       ELSE /\ last' = NoLog("stop")
            /\ UNCHANGED <<alarmActive, collisions, previousPositions, callCount>>
    /\ detector' = FALSE
    /\ options' = NoOptions
    /\ UNCHANGED now

SelfChoicesSink(delta) ==
    IF delivered(delta) THEN {NULL, Moving(Origin, StandingStill, now)} ELSE {NULL}
TargetChoicesSink(delta, ss) ==
    IF ~delivered(delta) THEN {NULL}
    ELSE IF SelfPasses(ss)
    THEN {NULL, Moving(AtEntryThreshold, Closing, now),
          Moving(BeyondThresholds, Closing, now)}
    ELSE IF sweepDue /\ LastPart(delta.context) \in DOMAIN collisions
    THEN {NULL, Moving(AtEntryThreshold, Closing, now)}
    ELSE {NULL}
OtherChoicesSink(delta) ==
    IF ~delivered(delta) THEN {<<>>}
    ELSE IF sweepDue /\ DOMAIN collisions \ {LastPart(delta.context)} # {}
    THEN [Vessels \ {LastPart(delta.context)}
            -> {NULL, Moving(AtEntryThreshold, Closing, now)}]
    ELSE {[o \in Vessels \ {LastPart(delta.context)} |-> NULL]}

NextSink ==
    \/ \E userOptions \in UserOptions : Start(userOptions)
    \/ Stop
    \/ StopFailing
    \/ Tick
    \/ \E delta \in PositionDeltas :
         \E ss \in SelfChoicesSink(delta) :
           \E ts \in TargetChoicesSink(delta, ss) :
             \E os \in OtherChoicesSink(delta) :
               \/ processDeltaMessage(delta, EnvOf(delta, ss, ts, os))
               \/ processDeltaMessageFailing(delta, EnvOf(delta, ss, ts, os))

SpecSink == Init /\ [][NextSink]_vars

-----------------------------------------------------------------------------
(* The functions on their own: the initial state draws a function and its  *)
(* arguments, the function's action applies it and keeps what it returned. *)

\* what a course or a speed can be
Courses == {Num(0), Num(1), Num(2), JSNull, JSUndefined, JSNaN, JSInfinity}
Speeds == {Num(0), Num(1), Num(3), JSNull, JSUndefined, JSNaN, JSInfinity}
\* where the second vessel is, the first being at the origin: off the bow,
\* dead ahead (on the same meridian), astern, abeam, and at the same place
Ahead == Position(360, 0)
Astern == Position(-60, 0)
SecondPositions == {AtEntryThreshold, Ahead, Astern, AbeamAtThreshold, Origin}

\* freshness limits (options.timeouts.PosFreshBefore)
FreshnessOptions ==
    {ValidUserOptions,
     [ValidUserOptions EXCEPT !.timeouts = [PosFreshBefore |-> Num(30)]]}
\* ages around the clock-skew bound, around each freshness limit, and between
Ages == {-CLOCK_SKEW - 1, -CLOCK_SKEW, -CLOCK_SKEW + 1, 0, 29, 30, 31, 59, 60, 61}

\* a stored position or a report for detectPositionJump: 45 m, 46 m, 90 m and
\* 91 m east of the origin, 45 m and just over 45 m away to the north-east
JumpPositions ==
    {NULL, Origin, Position(0, 45), Position(0, 46), Position(27, 36),
     Position(28, 36), Position(0, 90), Position(0, 91)}
JumpTimestamps == {0, Epoch - 1, Epoch, Epoch + 1, Epoch + 2}

\* coordinates at and one metre of arc past the bounds
Latitudes ==
    {0, LAT_BOUND * MetresPerDegree, LAT_BOUND * MetresPerDegree + 1,
     -LAT_BOUND * MetresPerDegree, -LAT_BOUND * MetresPerDegree - 1}
Longitudes ==
    {0, LON_BOUND * MetresPerDegree, LON_BOUND * MetresPerDegree + 1,
     -LON_BOUND * MetresPerDegree, -LON_BOUND * MetresPerDegree - 1}
\* courses and speeds at and past the bounds of validateVesselUpdate
CheckedCourses ==
    {JSNull, JSUndefined, JSNaN, JSInfinity,
     Num(-1), Num(0), Num(3), Num(TWO_PI), Num(TWO_PI + 1)}
CheckedSpeeds == {JSNull, JSUndefined, JSNaN, JSInfinity, Num(-1), Num(0), Num(1)}

\* a call that has not returned, and the same call once it has
Pending(fn, args) == [op |-> "pending", fn |-> fn, args |-> args, result |-> <<>>]
Returned(log, fn) == log.op = "returned" /\ log.fn = fn

CallsOfCalculateCPA ==
    {Pending("calculateCPA",
             <<Snapshot(Origin, c1, s1, Epoch), Snapshot(p2, c2, s2, Epoch)>>) :
        c1 \in Courses, s1 \in Speeds, c2 \in Courses, s2 \in Speeds,
        p2 \in SecondPositions}
CallsOfIsDataFresh ==
    {Pending("isDataFresh", <<NULL>>)}
    \cup {Pending("isDataFresh", <<Snapshot(Origin, JSNull, JSNull, ts)>>) :
            ts \in {0} \cup {Epoch - age : age \in Ages}}
CallsOfDetectPositionJump ==
    {Pending("detectPositionJump",
             <<Snapshot(p, JSNull, JSNull, ts), NULL>>) :
        p \in JumpPositions, ts \in JumpTimestamps}
    \cup {Pending("detectPositionJump",
                  <<Snapshot(p, JSNull, JSNull, ts),
                    [position |-> q, timestamp |-> ts0]>>) :
            p \in JumpPositions, ts \in JumpTimestamps,
            q \in {NULL, Origin}, ts0 \in {0, Epoch}}
CallsOfValidateVesselData ==
    {Pending("validateVesselData", <<NULL>>)}
    \cup {Pending("validateVesselData",
                  <<Snapshot(Position(lat, lon), course, speed, Epoch)>>) :
            lat \in Latitudes, lon \in Longitudes,
            course \in CheckedCourses, speed \in CheckedSpeeds}

InitFunctions ==
    /\ detector = TRUE
    /\ alarmActive = FALSE
    /\ collisions = <<>>
    /\ previousPositions = <<>>
    /\ callCount = 0
    /\ now = Epoch
    /\ \/ /\ options = mergedConfig(ValidUserOptions)
          /\ \/ last \in CallsOfCalculateCPA
             \/ last \in CallsOfDetectPositionJump
             \/ last \in CallsOfValidateVesselData
       \/ /\ options \in {mergedConfig(o) : o \in FreshnessOptions}
          /\ last \in CallsOfIsDataFresh

\* the pending call of fn returns
Return(fn, result) ==
    /\ last.op = "pending"
    /\ last.fn = fn
    /\ last' = [last EXCEPT !.op = "returned", !.result = <<result>>]
    /\ UNCHANGED <<detector, options, alarmActive, collisions, previousPositions,
                   callCount, now>>

CallCalculateCPA == Return("calculateCPA", calculateCPA(last.args[1], last.args[2]))
CallIsDataFresh == Return("isDataFresh", isDataFresh(last.args[1]))
CallDetectPositionJump ==
    Return("detectPositionJump", detectPositionJump(last.args[1], last.args[2]))
\* validateVesselData, with the errors of its validateVesselUpdate
CallValidateVesselData ==
    Return("validateVesselData",
           [valid |-> validateVesselData(last.args[1]),
            errors |-> IF IsNull(last.args[1]) THEN <<>>
                       ELSE validateVesselUpdate(last.args[1])])

NextFunctions ==
    \/ CallCalculateCPA
    \/ CallIsDataFresh
    \/ CallDetectPositionJump
    \/ CallValidateVesselData

SpecFunctions == InitFunctions /\ [][NextFunctions]_vars

-----------------------------------------------------------------------------
(* Properties.                                                             *)

HasThreats(c) == DOMAIN c # {}
EventStates(events) == [i \in DOMAIN events |-> events[i].state]
\* the events that go with a change of the threat set from `before` to `after`
TransitionEvents(before, after) ==
    IF ~before /\ after THEN <<"alarm">>
    ELSE IF before /\ ~after THEN <<"normal">>
    ELSE <<>>
\* an evaluation that got past the context check
IsEvaluation(log) == log.op = "check" /\ log.outcome # "BadContext"

\* C1: after every completed operation (an evaluation ending at any gate, the
\* periodic sweep inside it, a reset on start or stop) the alarm flag is active
\* if and only if the threat set is non-empty; last.fresh is the threat set the
\* periodic sweep left and last.midAlarm the flag it left.
C1_AlarmIffThreats ==
    /\ alarmActive = HasThreats(collisions)
    /\ (IsEvaluation(last) /\ last.swept) => (last.midAlarm = (last.fresh # {}))

\* an evaluation has just removed one of two threats and the alarm stays on
C1_Witness ==
    /\ IsEvaluation(last) /\ last.outcome = "Stale" /\ last.who = "target"
    /\ alarmActive /\ Cardinality(DOMAIN collisions) = 1
    /\ last.vessel \notin DOMAIN collisions
    /\ last.events = <<>>

\* C2: a notification is sent exactly when the threat set changes between empty
\* and non-empty: "alarm" on empty -> non-empty, "normal" on non-empty ->
\* empty, nothing otherwise. The periodic sweep and the evaluation that
\* follows it in the same call are two changes of the threat set, each with
\* its own event.
C2_NotificationOnTransition ==
    [][ EventStates(last'.events) =
          IF IsEvaluation(last') /\ last'.swept
          THEN TransitionEvents(HasThreats(collisions), last'.fresh # {})
               \o TransitionEvents(last'.fresh # {}, HasThreats(collisions'))
          ELSE TransitionEvents(HasThreats(collisions), HasThreats(collisions')) ]_vars

\* a second threat has been added while the alarm was active, without an event
C2_Witness ==
    /\ IsEvaluation(last) /\ last.outcome = "Threat"
    /\ last.midAlarm
    /\ Cardinality(DOMAIN collisions) = 2
    /\ last.events = <<>>

\* the evaluation got as far as the classification
ReachedClassification(log) == IsEvaluation(log) /\ log.outcome \in {"Threat", "Safe"}
BothHaveCourse(log) == HasCourse(log.self) /\ HasCourse(log.target)
\* calculateCPA on the snapshots the evaluation read
CpaOf(log) == calculateCPA(log.self, log.target)
\* tcpaSeconds / 60 <= timeWindowMinutes
TcpaInWindow(cpaResult) ==
    cpaResult.tcpaSeconds.n
        <= options.timeWindowMinutes * SECONDS_PER_MINUTE * cpaResult.tcpaSeconds.d
\* cpaDistance <= limit, cpaDistance < limit
CpaAtMost(cpaResult, limit) ==
    cpaResult.cpaDistanceSq.n <= Sq(limit) * cpaResult.cpaDistanceSq.d
CpaBelow(cpaResult, limit) ==
    cpaResult.cpaDistanceSq.n < Sq(limit) * cpaResult.cpaDistanceSq.d
SafeDistance == options.safePassingDistanceMeters
SafeDistancePlusHysteresis ==
    options.safePassingDistanceMeters + options.alarmHysteresisMeters

\* the target of the last evaluation: course and speed on both vessels, not
\* diverging, TCPA inside the window, CPA distance strictly between the
\* safe-passing distance and safe-passing distance + hysteresis
InHysteresisCase(log) ==
    /\ ReachedClassification(log)
    /\ BothHaveCourse(log)
    /\ ~CpaOf(log).diverging
    /\ TcpaInWindow(CpaOf(log))
    /\ ~CpaAtMost(CpaOf(log), SafeDistance)
    /\ CpaBelow(CpaOf(log), SafeDistancePlusHysteresis)

\* C3: hysteresis. A target in the band between the two thresholds is a threat
\* after its evaluation if the alarm was active when it was evaluated; if the
\* alarm was inactive it is not in the threat set and the alarm stays off.
C3_Hysteresis ==
    InHysteresisCase(last) =>
        IF last.midAlarm
        THEN /\ last.outcome = "Threat"
             /\ last.vessel \in DOMAIN collisions
             /\ collisions[last.vessel].method = "CPA"
             /\ alarmActive
        ELSE /\ last.outcome = "Safe"
             /\ last.vessel \notin DOMAIN collisions
             /\ ~alarmActive
             /\ Len(last.events) = last.sweepEvents

\* a target in the band was evaluated while another vessel kept the alarm on
C3_Witness ==
    /\ InHysteresisCase(last)
    /\ last.midAlarm
    /\ DOMAIN collisions = Vessels

\* the evaluation got as far as checkPositionJump
ReachedJumpCheck(log) ==
    IsEvaluation(log) /\ log.outcome \in {"Jumped", "OutOfRange", "Safe", "Threat"}
\* the entries of pp older than twice the freshness limit
StalePositions(pp) ==
    {id \in DOMAIN pp : /\ pp[id].timestamp # 0
                        /\ now - pp[id].timestamp > 2 * options.timeouts.PosFreshBefore}
\* the vessels tracked when the evaluation described by log reached
\* checkPositionJump: the periodic cleanup, if it ran, has evicted the stale ones
TrackedAtJumpCheck(pp, log) ==
    IF log.swept THEN DOMAIN pp \ StalePositions(pp) ELSE DOMAIN pp

\* C4: previousPositions never holds more entries than the tracking limit, and
\* when a vessel that is not tracked is to be recorded with the store at the
\* limit, cleanupStalePositions runs first and the insert is decided on what
\* it left: the vessel is recorded if the cleanup made room, and otherwise the
\* store is left as it is.
C4_TrackingLimit ==
    /\ [](Cardinality(DOMAIN previousPositions) <= VESSEL_TRACKING_LIMIT)
    /\ [][ ( /\ ReachedJumpCheck(last')
             /\ last'.vessel \notin TrackedAtJumpCheck(previousPositions, last')
             /\ Cardinality(TrackedAtJumpCheck(previousPositions, last'))
                  >= VESSEL_TRACKING_LIMIT )
           => /\ last'.positionSweeps = (IF last'.swept THEN 2 ELSE 1)
              /\ IF Cardinality(DOMAIN previousPositions
                                  \ StalePositions(previousPositions))
                      < VESSEL_TRACKING_LIMIT
                 THEN DOMAIN previousPositions' =
                        (DOMAIN previousPositions \ StalePositions(previousPositions))
                          \cup {last'.vessel}
                 ELSE DOMAIN previousPositions' =
                        TrackedAtJumpCheck(previousPositions, last') ]_vars

\* at the limit, the cleanup evicted an old track and the new vessel was recorded
C4_Witness ==
    /\ ReachedJumpCheck(last) /\ ~last.swept
    /\ last.positionSweeps = 1
    /\ DOMAIN previousPositions = {last.vessel}
    /\ Cardinality(DOMAIN previousPositions) = VESSEL_TRACKING_LIMIT

\* the threat set as the periodic cleanup of the evaluation described by log
\* left it: the records whose data it found available and fresh
AfterSweep(c, log) == IF log.swept THEN [id \in log.fresh |-> c[id]] ELSE c
\* the events that followed the periodic cleanup
EventsAfterSweep(log) == SubSeq(log.events, log.sweepEvents + 1, Len(log.events))

\* C5: every CLEANUP_FREQUENCY-th evaluation, whatever its target, sweeps the
\* threat set: a record whose vessel's data is unavailable or no longer fresh
\* is removed, and if no record is left of a non-empty set the alarm goes off
\* and one "normal" notification is sent, before the evaluation proper.
C5_SweepClearsStaleThreats ==
    [][ IsEvaluation(last') =>
          /\ last'.swept = (callCount' = 0)
          /\ callCount' = (callCount + 1) % CLEANUP_FREQUENCY
          /\ last'.swept =>
               /\ \A id \in DOMAIN collisions \ last'.fresh :
                     id \notin DOMAIN collisions'
               /\ last'.midAlarm = (last'.fresh # {})
               /\ IF HasThreats(collisions) /\ last'.fresh = {}
                  THEN /\ last'.sweepEvents = 1
                       /\ last'.events[1].state = "normal"
                  ELSE last'.sweepEvents = 0 ]_vars

\* the evaluation of "B" swept the only threat, which was not "B" (its own
\* data is fresh: it has just become a threat), and the alarm went off and on
C5_Witness ==
    /\ IsEvaluation(last) /\ last.swept /\ last.vessel = "B"
    /\ EventStates(last.events) = <<"normal", "alarm">>
    /\ DOMAIN collisions = {"B"}

\* C6: when checkPositionJump reports a jump the evaluation returns at once:
\* the threat set, with the target's record if it has one, the alarm flag and
\* the stored previous position are as the periodic cleanup (if this call ran
\* it) left them, and nothing is sent.
C6_JumpLeavesThreats ==
    [][ ( /\ ReachedJumpCheck(last')
          /\ last'.vessel \in TrackedAtJumpCheck(previousPositions, last')
          /\ detectPositionJump(last'.target, previousPositions[last'.vessel]) )
        => /\ last'.outcome = "Jumped"
           /\ collisions' = AfterSweep(collisions, last')
           /\ (last'.vessel \in DOMAIN collisions
                 => /\ last'.vessel \in DOMAIN collisions'
                    /\ collisions'[last'.vessel] = collisions[last'.vessel])
           /\ alarmActive' = last'.midAlarm
           /\ EventsAfterSweep(last') = <<>>
           /\ previousPositions'[last'.vessel] = previousPositions[last'.vessel]
      ]_vars

\* a jump of a vessel that is a threat: its record and the alarm are still there
C6_Witness ==
    /\ IsEvaluation(last) /\ last.outcome = "Jumped"
    /\ last.vessel \in DOMAIN collisions
    /\ collisions[last.vessel].position # last.target.position
    /\ alarmActive
    /\ last.events = <<>>

\* the evaluation described by log returned without touching what the periodic
\* cleanup left: threat set c2, alarm flag alarm2, nothing sent
EndsUntouched(c, log, c2, alarm2) ==
    /\ c2 = AfterSweep(c, log)
    /\ alarm2 = log.midAlarm
    /\ EventsAfterSweep(log) = <<>>
\* it returned after removing the target's record, if any, and bringing the
\* alarm flag up to date
EndsCleared(c, log, c2, alarm2) ==
    /\ c2 = Without(AfterSweep(c, log), log.vessel)
    /\ alarm2 = HasThreats(c2)
    /\ EventStates(EventsAfterSweep(log)) = TransitionEvents(log.midAlarm, HasThreats(c2))

\* the snapshot is there and fails the freshness check
FailsFreshness(vesselData) == ~IsNull(vesselData) /\ ~isDataFresh(vesselData)
\* the snapshot is there and fresh, and fails validation
FailsValidation(vesselData) ==
    /\ ~IsNull(vesselData) /\ isDataFresh(vesselData)
    /\ validateVesselUpdate(vesselData) # <<>>

\* C7, as claimed: a failed freshness check of either snapshot ends the
\* evaluation as Stale with the target's threat record cleared.
C7_StaleEitherClearsThreat ==
    [][ ( /\ IsEvaluation(last')
          /\ \/ FailsFreshness(last'.self)
             \/ SelfPasses(last'.self) /\ FailsFreshness(last'.target) )
        => /\ last'.outcome = "Stale"
           /\ EndsCleared(collisions, last', collisions', alarmActive') ]_vars

\* C7, amended: a failed freshness check ends the evaluation as Stale. If it is
\* the target's snapshot that failed (the own vessel's having passed its
\* checks), the target's threat record is cleared and the alarm re-derived. If
\* it is the own vessel's, the threat set and the alarm are left as they are.
C7_StaleTargetClearsThreat ==
    [][ IsEvaluation(last') =>
          /\ FailsFreshness(last'.self) =>
               /\ last'.outcome = "Stale" /\ last'.who = "self"
               /\ EndsUntouched(collisions, last', collisions', alarmActive')
          /\ (SelfPasses(last'.self) /\ FailsFreshness(last'.target)) =>
               /\ last'.outcome = "Stale" /\ last'.who = "target"
               /\ EndsCleared(collisions, last', collisions', alarmActive') ]_vars

\* the own vessel's data was stale: the target is still a threat
C7_Witness ==
    /\ IsEvaluation(last) /\ last.outcome = "Stale" /\ last.who = "self"
    /\ last.vessel \in DOMAIN collisions
    /\ alarmActive

\* C8, as claimed: an evaluation that ends as NoData or Invalid, for the own
\* vessel or the target, clears the target's threat record and re-derives the
\* alarm.
C8_NoDataInvalidEitherClearsThreat ==
    [][ ( /\ IsEvaluation(last')
          /\ \/ IsNull(last'.self)
             \/ FailsValidation(last'.self)
             \/ SelfPasses(last'.self) /\ IsNull(last'.target)
             \/ SelfPasses(last'.self) /\ FailsValidation(last'.target) )
        => /\ last'.outcome \in {"NoData", "Invalid"}
           /\ EndsCleared(collisions, last', collisions', alarmActive') ]_vars

\* C8, amended: an evaluation that ends because the target's snapshot is
\* unavailable or fails validation (the own vessel's having passed its checks)
\* clears the target's threat record and re-derives the alarm; one that ends
\* because the own vessel's snapshot is unavailable or fails validation leaves
\* the threat set and the alarm as they are.
C8_NoDataInvalidTargetClearsThreat ==
    [][ IsEvaluation(last') =>
          /\ IsNull(last'.self) =>
               /\ last'.outcome = "NoData" /\ last'.who = "self"
               /\ EndsUntouched(collisions, last', collisions', alarmActive')
          /\ FailsValidation(last'.self) =>
               /\ last'.outcome = "Invalid" /\ last'.who = "self"
               /\ EndsUntouched(collisions, last', collisions', alarmActive')
          /\ (SelfPasses(last'.self) /\ IsNull(last'.target)) =>
               /\ last'.outcome = "NoData" /\ last'.who = "target"
               /\ EndsCleared(collisions, last', collisions', alarmActive')
          /\ (SelfPasses(last'.self) /\ FailsValidation(last'.target)) =>
               /\ last'.outcome = "Invalid" /\ last'.who = "target"
               /\ EndsCleared(collisions, last', collisions', alarmActive') ]_vars

\* the own vessel's snapshot failed validation: the target is still a threat
C8_Witness ==
    /\ IsEvaluation(last) /\ last.outcome = "Invalid" /\ last.who = "self"
    /\ last.vessel \in DOMAIN collisions
    /\ alarmActive

\* the evaluation got as far as the range filter
ReachedRangeFilter(log) ==
    IsEvaluation(log) /\ log.outcome \in {"OutOfRange", "Safe", "Threat"}
DistanceSqOf(log) == calculateDistanceSq(log.self.position, log.target.position)

\* C9: a target farther away than rangeMeters is not classified: the evaluation
\* ends as OutOfRange, its threat record is cleared and the alarm re-derived. A
\* target at rangeMeters exactly, or nearer, is classified.
C9_RangeFilter ==
    [][ ReachedRangeFilter(last') =>
          IF DistanceSqOf(last') > Sq(options.rangeMeters)
          THEN /\ last'.outcome = "OutOfRange"
               /\ EndsCleared(collisions, last', collisions', alarmActive')
          ELSE last'.outcome \in {"Safe", "Threat"} ]_vars

\* a target at the maximum range exactly has been classified
C9_Witness ==
    /\ ReachedClassification(last)
    /\ DistanceSqOf(last) = Sq(options.rangeMeters)

\* the threshold in force when the evaluation classified its target
ActiveThreshold(log) ==
    IF log.midAlarm THEN SafeDistancePlusHysteresis ELSE SafeDistance

ParallelCase(log) ==
    /\ ReachedClassification(log) /\ BothHaveCourse(log)
    /\ CpaOf(log).parallelCourse

SameVelocity(log) ==
    /\ log.self.speed.v * SinQ(log.self.course.v)
         = log.target.speed.v * SinQ(log.target.course.v)
    /\ log.self.speed.v * CosQ(log.self.course.v)
         = log.target.speed.v * CosQ(log.target.course.v)

\* C12 (README, "No alarm for: parallel courses at constant separation"): the
\* evaluation of a target whose velocity equals the own vessel's does not end
\* with the target in the threat set and sends no "alarm" notification.
C12_NoAlarmOnParallelCourses ==
    ( /\ ReachedClassification(last) /\ BothHaveCourse(last)
      /\ SameVelocity(last) )
    => /\ last.outcome # "Threat"
       /\ last.vessel \notin DOMAIN collisions
       /\ \A i \in DOMAIN last.events : last.events[i].state # "alarm"

\* -(relative position . relative velocity), the sign of the raw TCPA
RawTcpaSign(log) ==
    LET relVelX == log.target.speed.v * SinQ(log.target.course.v)
                     - log.self.speed.v * SinQ(log.self.course.v)
        relVelY == log.target.speed.v * CosQ(log.target.course.v)
                     - log.self.speed.v * CosQ(log.self.course.v)
        relPosX == log.target.position.longitude - log.self.position.longitude
        relPosY == log.target.position.latitude - log.self.position.latitude
    IN  -(relPosX * relVelX + relPosY * relVelY)
\* the pair of the last evaluation got to the classification with course and
\* speed on both vessels and a negative raw TCPA
DivergingCase(log) ==
    /\ ReachedClassification(log) /\ BothHaveCourse(log)
    /\ RawTcpaSign(log) < 0

\* C13: a diverging target is not a threat after its evaluation, whatever its
\* distance and whatever the alarm state: the geometric fallback does not take
\* it, a threat record it had is removed, and the alarm is brought up to date
\* with the threat set that is left.
C13_DivergingNeverThreat ==
    DivergingCase(last) =>
        /\ last.outcome = "Safe"
        /\ last.vessel \notin DOMAIN collisions
        /\ alarmActive = HasThreats(collisions)
        /\ EventStates(EventsAfterSweep(last))
             = TransitionEvents(last.midAlarm, HasThreats(collisions))

\* a diverging target inside the fallback's threshold was the only threat: its
\* record is gone and the alarm is off
C13_Witness ==
    /\ DivergingCase(last)
    /\ DistanceSqOf(last) < Sq(2 * SafeDistance)
    /\ last.midAlarm
    /\ EventStates(last.events) = <<"normal">>
    /\ ~alarmActive

\* 2 x safe-passing distance, plus the hysteresis margin if the alarm was
\* active when the evaluation classified its target
FallbackLimit(log) ==
    2 * SafeDistance
      + (IF log.midAlarm THEN options.alarmHysteresisMeters ELSE 0)

\* C14: a target that reaches the classification while the own vessel or the
\* target lacks course or speed is a threat after the evaluation, with method
\* GEOMETRIC, if and only if its distance is below 2 x safe-passing distance
\* (plus hysteresis when the alarm is active); a record the evaluation stores
\* has method GEOMETRIC exactly when course or speed is missing and method CPA
\* exactly when both vessels have them.
C14_FallbackClassification ==
    ReachedClassification(last) =>
        /\ ~BothHaveCourse(last) =>
              /\ (last.vessel \in DOMAIN collisions)
                   = (DistanceSqOf(last) < Sq(FallbackLimit(last)))
              /\ (last.outcome = "Threat") = (last.vessel \in DOMAIN collisions)
        /\ last.vessel \in DOMAIN collisions =>
              /\ collisions[last.vessel].method \in {"CPA", "GEOMETRIC"}
              /\ (collisions[last.vessel].method = "GEOMETRIC") = ~BothHaveCourse(last)
              /\ (collisions[last.vessel].method = "CPA") = BothHaveCourse(last)

\* a target without course and speed, 2 x safe-passing distance away, is a
\* threat because the alarm was active
C14_Witness ==
    /\ ReachedClassification(last)
    /\ HasCourse(last.self) /\ ~HasCourse(last.target)
    /\ last.midAlarm
    /\ DistanceSqOf(last) = Sq(2 * SafeDistance)
    /\ last.vessel \in DOMAIN collisions
    /\ collisions[last.vessel].method = "GEOMETRIC"

\* what the classification makes of the pair the evaluation read, with the
\* thresholds in force when it classified
ExpectedThreat(log) ==
    IF BothHaveCourse(log)
    THEN /\ ~CpaOf(log).diverging
         /\ CpaAtMost(CpaOf(log), ActiveThreshold(log))
         /\ CpaOf(log).parallelCourse \/ TcpaInWindow(CpaOf(log))
    ELSE DistanceSqOf(log) < Sq(FallbackLimit(log))
\* pp without its stale entries
Kept(pp) == [id \in DOMAIN pp \ StalePositions(pp) |-> pp[id]]

\* C15: when a vessel that is not tracked passes the gates while
\* previousPositions, stale entries removed, is still at the tracking limit,
\* no position is recorded for it and the store keeps its other entries; the
\* evaluation does not end there: it goes through the range filter and the
\* classification as for a tracked vessel, the target is in the threat set
\* afterwards exactly if the classification finds it a threat, and the alarm
\* follows the threat set.
C15_CapacityDegradation ==
    [][ ( /\ IsEvaluation(last') /\ SelfPasses(last'.self)
          /\ WasFetched(last'.target) /\ ~IsNull(last'.target)
          /\ ~FailsFreshness(last'.target) /\ ~FailsValidation(last'.target)
          /\ last'.vessel \notin DOMAIN previousPositions
          /\ Cardinality(DOMAIN Kept(previousPositions)) >= VESSEL_TRACKING_LIMIT )
        => /\ previousPositions' = Kept(previousPositions)
           /\ last'.positionSweeps >= 1
           /\ last'.outcome \in {"OutOfRange", "Safe", "Threat"}
           /\ (last'.outcome = "OutOfRange")
                = (DistanceSqOf(last') > Sq(options.rangeMeters))
           /\ (last'.vessel \in DOMAIN collisions')
                = (last'.outcome # "OutOfRange" /\ ExpectedThreat(last'))
           /\ alarmActive' = HasThreats(collisions') ]_vars

\* a vessel for which the store had no room has become the only threat and
\* has turned the alarm on
C15_Witness ==
    /\ ReachedClassification(last)
    /\ last.vessel \notin DOMAIN previousPositions
    /\ Cardinality(DOMAIN previousPositions) = VESSEL_TRACKING_LIMIT
    /\ last.positionSweeps >= 1
    /\ DOMAIN collisions = {last.vessel}
    /\ EventStates(last.events) = <<"alarm">>

\* C16: a delta that names the own vessel ("self", the own identifier, or the
\* own vessel's full context), and a delta that carries no position update,
\* leave the threat set, the alarm flag, previousPositions and the evaluation
\* counter as they are, and nothing is sent.
C16_OwnVesselTriggerIgnored ==
    [][ ( /\ last'.op \in {"ignored", "check"}
          /\ \/ last'.vessel \in {"self", OwnId}
             \/ ~last'.containsPosition )
        => /\ UNCHANGED <<alarmActive, collisions, previousPositions, callCount>>
           /\ last'.op = "ignored"
           /\ last'.events = <<>> ]_vars

\* a delta of the own vessel, under the name "self", arrived while a detector
\* with a threat, a tracked vessel and a count was running
C16_Witness ==
    /\ detector /\ last.op = "ignored"
    /\ last.vessel = "self" /\ last.containsPosition
    /\ alarmActive /\ previousPositions # <<>> /\ callCount # 0

\* the value is given and is not a number in the range: positive, or
\* non-negative where zero is allowed
OutOfBounds(x, zeroAllowed) ==
    /\ x.t # "undefined"
    /\ IF x.t = "num" THEN x.v < 0 \/ (x.v = 0 /\ ~zeroAllowed) ELSE TRUE
\* the constraints a configuration violates, each by its message
Violated(config) ==
    (IF OutOfBounds(config.safePassingDistanceMeters, FALSE)
     THEN {"safePassingDistanceMeters must be a positive number"} ELSE {})
    \cup (IF OutOfBounds(config.alarmHysteresisMeters, TRUE)
          THEN {"alarmHysteresisMeters must be a non-negative number"} ELSE {})
    \cup (IF OutOfBounds(config.timeWindowMinutes, FALSE)
          THEN {"timeWindowMinutes must be a positive number"} ELSE {})
    \cup (IF OutOfBounds(config.rangeNauticalMiles, FALSE)
          THEN {"rangeNauticalMiles must be a positive number"} ELSE {})
    \cup (IF OutOfBounds(config.timeouts.PosFreshBefore, FALSE)
          THEN {"timeouts.PosFreshBefore must be a positive number"} ELSE {})
Range(seq) == {seq[i] : i \in DOMAIN seq}

\* C17: plugin.start with a configuration that violates a constraint reports
\* one error message that lists every violated constraint once, and creates
\* no detector; while there is no detector a delta is ignored: the threat
\* set, the alarm, previousPositions and the counter stay as they were,
\* empty, and nothing is sent. A configuration that violates nothing starts
\* the detector without an error.
C17_ConfigurationError ==
    /\ last.op = "start" =>
          IF Violated(last.config) # {}
          THEN /\ last.outcome = "ConfigurationError"
               /\ Len(last.pluginError) = 1
               /\ Range(last.pluginError[1]) = Violated(last.config)
               /\ Len(last.pluginError[1]) = Cardinality(Violated(last.config))
               /\ ~detector
               /\ options = NoOptions
          ELSE /\ detector
               /\ last.pluginError = <<>>
    /\ ~detector =>
          /\ collisions = <<>> /\ ~alarmActive
          /\ previousPositions = <<>> /\ callCount = 0
          /\ last.op # "check"
          /\ last.op = "ignored" => last.events = <<>>

\* a start with every value out of range or not a number has failed with one
\* message that lists the five constraints
C17_Witness ==
    /\ last.op = "start" /\ last.outcome = "ConfigurationError"
    /\ ~detector
    /\ Len(last.pluginError) = 1
    /\ Len(last.pluginError[1]) = 5

\* C18: when app.getPath throws for a vessel, getVesselData answers null and
\* the evaluation goes on as for a vessel without data: thrown for the own
\* vessel, the evaluation ends as NoData; thrown for the target, it ends as
\* NoData with the target's threat record cleared; thrown for a threat during
\* the periodic sweep, that record is swept. In every case the call completes
\* and the alarm is active exactly if a threat is left.
C18_ProviderFailureIsNoData ==
    (IsEvaluation(last) /\ last.failed # {}) =>
        /\ OwnId \in last.failed =>
              /\ IsNull(last.self)
              /\ last.outcome = "NoData" /\ last.who = "self"
        /\ (last.vessel \in last.failed /\ SelfPasses(last.self)) =>
              /\ IsNull(last.target)
              /\ last.outcome = "NoData" /\ last.who = "target"
              /\ last.vessel \notin DOMAIN collisions
        /\ last.swept =>
              /\ last.failed \cap last.fresh = {}
              /\ last.failed \cap DOMAIN collisions = {}
        /\ last.outcome \in {"NoData", "Stale", "Invalid", "Jumped",
                              "OutOfRange", "Safe", "Threat"}
        /\ alarmActive = HasThreats(collisions)

\* app.getPath threw for the only threat during the sweep of another vessel's
\* evaluation: the alarm went off, and on again with the vessel evaluated
C18_Witness ==
    /\ IsEvaluation(last) /\ last.swept
    /\ last.failed = Vessels \ {last.vessel}
    /\ EventStates(last.events) = <<"normal", "alarm">>
    /\ DOMAIN collisions = {last.vessel}

Activated(log) ==
    /\ log.events # <<>>
    /\ log.events[Len(log.events)].state = "alarm"

-----------------------------------------------------------------------------
(* Properties of the functions.                                            *)

\* what the returned call was handed and what it gave back
ResultOf(log) == log.result[1]
\* the two vessels of a call of calculateCPA, named as the evaluation names them
PairOf(log) == [self |-> log.args[1], target |-> log.args[2]]
IsFinite(x) == x.t = "num"
AllFinite(pair) ==
    /\ IsFinite(pair.self.course) /\ IsFinite(pair.self.speed)
    /\ IsFinite(pair.target.course) /\ IsFinite(pair.target.speed)
\* |v|^2 and |p|^2 of the pair: relative velocity and relative position
RelSpeedSq(pair) ==
    Sq(pair.target.speed.v * SinQ(pair.target.course.v)
         - pair.self.speed.v * SinQ(pair.self.course.v))
    + Sq(pair.target.speed.v * CosQ(pair.target.course.v)
           - pair.self.speed.v * CosQ(pair.self.course.v))
SeparationSq(pair) ==
    Sq(pair.target.position.latitude - pair.self.position.latitude)
    + Sq(pair.target.position.longitude - pair.self.position.longitude)
\* relative speed >= 0.01 m/s
AtOrAboveFloor(pair) == RelSpeedSq(pair) * Sq(RELATIVE_VELOCITY_FLOOR_INV) >= 1

\* C21: calculateCPA returns null if and only if the course or the speed of
\* one of the two vessels is undefined, null, NaN or infinite.
C21_NoneUnlessFinite ==
    Returned(last, "calculateCPA") =>
        (IsNull(ResultOf(last)) <=> ~AllFinite(PairOf(last)))

\* C22: a pair with a relative speed of at least 0.01 m/s and a negative
\* -(p.v)/|v|^2 gets diverging = TRUE, cpaDistance = Infinity, tcpaSeconds = 0
\* and parallelCourse = FALSE; a result with diverging = TRUE is returned for
\* no other pair.
C22_DivergingResult ==
    Returned(last, "calculateCPA") =>
        /\ (/\ AllFinite(PairOf(last)) /\ AtOrAboveFloor(PairOf(last))
            /\ RawTcpaSign(PairOf(last)) < 0)
           => /\ ~IsNull(ResultOf(last))
              /\ ResultOf(last).diverging
              /\ ResultOf(last).cpaDistanceSq = Infinity
              /\ ResultOf(last).tcpaSeconds = Frac(0, 1)
              /\ ~ResultOf(last).parallelCourse
        /\ (~IsNull(ResultOf(last)) /\ ResultOf(last).diverging)
           => /\ AllFinite(PairOf(last)) /\ AtOrAboveFloor(PairOf(last))
              /\ RawTcpaSign(PairOf(last)) < 0

\* the first vessel heads north at 1 m/s, the second lies dead astern of it,
\* standing still: the result says diverging
C22_Witness ==
    /\ Returned(last, "calculateCPA")
    /\ AllFinite(PairOf(last))
    /\ PairOf(last).self.speed = Num(1) /\ PairOf(last).self.course = Num(0)
    /\ PairOf(last).target.speed = Num(0)
    /\ PairOf(last).target.position = Astern
    /\ ResultOf(last).diverging

\* C23: a pair with a relative speed below 0.01 m/s gets parallelCourse = TRUE,
\* diverging = FALSE, tcpaSeconds = Infinity and a cpaDistance equal to the
\* distance of the two positions; two vessels standing still are such a pair.
C23_ParallelResult ==
    Returned(last, "calculateCPA") =>
        /\ (AllFinite(PairOf(last)) /\ ~AtOrAboveFloor(PairOf(last)))
           => /\ ~IsNull(ResultOf(last))
              /\ ResultOf(last).parallelCourse
              /\ ~ResultOf(last).diverging
              /\ ResultOf(last).tcpaSeconds = Infinity
              /\ ResultOf(last).cpaDistanceSq
                   = Frac(haversineDistanceSq(PairOf(last).self.position,
                                              PairOf(last).target.position), 1)
        /\ (/\ AllFinite(PairOf(last))
            /\ PairOf(last).self.speed = Num(0)
            /\ PairOf(last).target.speed = Num(0))
           => ResultOf(last).parallelCourse

\* two vessels standing still 50 m apart, and on unlike courses: parallel, with
\* a cpaDistance of 50 m
C23_Witness ==
    /\ Returned(last, "calculateCPA")
    /\ AllFinite(PairOf(last))
    /\ PairOf(last).self.speed = Num(0) /\ PairOf(last).target.speed = Num(0)
    /\ PairOf(last).self.course # PairOf(last).target.course
    /\ PairOf(last).target.position = AbeamAtThreshold
    /\ ResultOf(last).parallelCourse
    /\ ResultOf(last).cpaDistanceSq = Frac(Sq(50), 1)

\* the second vessel is due north of the first, on its meridian, the first
\* heads north and the second south
HeadOn(pair) ==
    /\ pair.target.position.longitude = pair.self.position.longitude
    /\ pair.target.position.latitude > pair.self.position.latitude
    /\ pair.self.course = Num(0) /\ pair.target.course = Num(2)

\* C24: for a pair with a relative speed of at least 0.01 m/s and
\* -(p.v)/|v|^2 >= 0 the result is neither diverging nor parallel, its
\* tcpaSeconds is -(p.v)/|v|^2 and its cpaDistance |p + v * tcpaSeconds|, whose
\* square is |p|^2 - (p.v)^2/|v|^2. Head-on on one meridian the cpaDistance is 0
\* and tcpaSeconds times the sum of the two speeds is the separation.
C24_ConvergingResult ==
    (/\ Returned(last, "calculateCPA")
     /\ AllFinite(PairOf(last)) /\ AtOrAboveFloor(PairOf(last))
     /\ RawTcpaSign(PairOf(last)) >= 0)
    => /\ ~IsNull(ResultOf(last))
       /\ ~ResultOf(last).diverging /\ ~ResultOf(last).parallelCourse
       /\ ResultOf(last).tcpaSeconds
            = Frac(RawTcpaSign(PairOf(last)), RelSpeedSq(PairOf(last)))
       /\ ResultOf(last).cpaDistanceSq
            = Frac((SeparationSq(PairOf(last)) * RelSpeedSq(PairOf(last))
                      - Sq(RawTcpaSign(PairOf(last)))) * RelSpeedSq(PairOf(last)),
                   Sq(RelSpeedSq(PairOf(last))))
       /\ HeadOn(PairOf(last))
          => /\ ResultOf(last).cpaDistanceSq.n = 0
             /\ ResultOf(last).tcpaSeconds.n
                  * (PairOf(last).self.speed.v + PairOf(last).target.speed.v)
                = ResultOf(last).tcpaSeconds.d
                    * (PairOf(last).target.position.latitude
                         - PairOf(last).self.position.latitude)

\* two vessels 360 m apart on one meridian, head-on at 1 m/s each: cpaDistance
\* 0 and tcpaSeconds 180, the time of one nautical mile at 20 knots
C24_Witness ==
    /\ Returned(last, "calculateCPA")
    /\ HeadOn(PairOf(last))
    /\ PairOf(last).target.position = Ahead
    /\ PairOf(last).self.speed = Num(1) /\ PairOf(last).target.speed = Num(1)
    /\ ResultOf(last).cpaDistanceSq.n = 0
    /\ ResultOf(last).tcpaSeconds.n = 180 * ResultOf(last).tcpaSeconds.d

\* age of the snapshot handed to the call, in seconds
AgeOf(log) == now - log.args[1].timestamp

\* C25: isDataFresh answers TRUE if and only if the snapshot is there, has a
\* timestamp, and its age is at least -60 s and at most
\* options.timeouts.PosFreshBefore, both ends included.
C25_FreshnessWindow ==
    Returned(last, "isDataFresh") =>
        (ResultOf(last) <=>
            /\ ~IsNull(last.args[1])
            /\ last.args[1].timestamp # 0
            /\ AgeOf(last) >= -60
            /\ AgeOf(last) <= options.timeouts.PosFreshBefore)

\* a snapshot taken 60 s in the future is fresh, and so is, in another call,
\* one exactly as old as the limit; here the first
C25_Witness ==
    /\ Returned(last, "isDataFresh")
    /\ ~IsNull(last.args[1])
    /\ AgeOf(last) = -60
    /\ ResultOf(last)

\* the call of detectPositionJump has what it needs: both positions, both
\* timestamps
HasPositionAndTime(x) == ~IsNull(x) /\ ~IsNull(x.position) /\ x.timestamp # 0
\* seconds from the stored position to the report
ElapsedOf(log) == log.args[1].timestamp - log.args[2].timestamp

\* C26: detectPositionJump reports no jump when the report or the stored
\* entry lacks a position or a timestamp, or when the report is not later
\* than the stored entry; otherwise it reports a jump if and only if
\* distance / elapsed seconds > 45 m/s.
C26_JumpDetection ==
    Returned(last, "detectPositionJump") =>
        IF \/ ~HasPositionAndTime(last.args[1])
           \/ ~HasPositionAndTime(last.args[2])
        THEN ~ResultOf(last)
        ELSE IF ElapsedOf(last) <= 0
        THEN ~ResultOf(last)
        ELSE ResultOf(last) <=>
                haversineDistanceSq(last.args[2].position, last.args[1].position)
                    > Sq(45 * ElapsedOf(last))

\* one second after a report at the origin, a report 28 m north and 36 m east
\* of it (45.6 m away) is a jump
C26_Witness ==
    /\ Returned(last, "detectPositionJump")
    /\ HasPositionAndTime(last.args[1]) /\ HasPositionAndTime(last.args[2])
    /\ ElapsedOf(last) = 1
    /\ last.args[1].position = Position(28, 36)
    /\ ResultOf(last)

\* the bounds the snapshot is held to: coordinates in degrees, as metres of arc
LatitudeInBounds(x) == Abs(x.position.latitude) <= 90 * MetresPerDegree
LongitudeInBounds(x) == Abs(x.position.longitude) <= 180 * MetresPerDegree
\* absent, or a number that is not negative
SpeedInBounds(x) ==
    \/ IsNullish(x.speed) \/ IsInfinite(x.speed)
    \/ IsFinite(x.speed) /\ x.speed.v >= 0
\* absent, or a number in [0, 2*pi)
CourseInHalfOpenTurn(x) ==
    \/ IsNullish(x.course)
    \/ IsFinite(x.course) /\ x.course.v >= 0 /\ x.course.v < TWO_PI

\* C27: a snapshot is valid (no violation is listed) if and only if its
\* latitude is in [-90, 90], its longitude in [-180, 180], its speed, when
\* present, a number that is not negative, and its course, when present, a
\* number in [0, 2*pi); a course of exactly 2*pi is a violation.
C27_ValidIffInBounds ==
    (Returned(last, "validateVesselData") /\ ~IsNull(last.args[1])) =>
        /\ ResultOf(last).valid <=> ResultOf(last).errors = <<>>
        /\ ResultOf(last).valid <=>
              /\ LatitudeInBounds(last.args[1])
              /\ LongitudeInBounds(last.args[1])
              /\ SpeedInBounds(last.args[1])
              /\ CourseInHalfOpenTurn(last.args[1])

-----------------------------------------------------------------------------
(* Properties of the plugin, continued.                                    *)

\* C28: state.callCount, kept modulo CLEANUP_FREQUENCY, is 0 after start, stop
\* and reset, goes up by one on every trigger that names a target, however the
\* evaluation ends, and is left alone by the other deliveries; the periodic
\* cleanup (cleanupStalePositions, then cleanupStaleCollisions) runs in a
\* trigger if and only if that brings the count to a multiple of
\* CLEANUP_FREQUENCY, and no other call sweeps the threats.
C28_CleanupCadence ==
    [][/\ IsEvaluation(last') =>
            /\ callCount' = (callCount + 1) % CLEANUP_FREQUENCY
            /\ last'.swept <=> callCount' = 0
            /\ last'.swept => last'.positionSweeps >= 1
            /\ ~last'.swept => last'.sweepEvents = 0 /\ last'.fresh = {}
       /\ (last'.op \in {"ignored", "tick"} \/ last'.outcome = "BadContext") =>
            /\ callCount' = callCount
            /\ ~last'.swept
            /\ collisions' = collisions
       /\ last'.op = "stop" => callCount' = 0
       /\ (last'.op = "start" /\ last'.outcome # "ConfigurationError") =>
            callCount' = 0
      ]_vars

\* the cleanup ran in a trigger that then ended at the own vessel's stale
\* snapshot
C28_Witness ==
    /\ IsEvaluation(last)
    /\ last.outcome = "Stale" /\ last.who = "self"
    /\ last.swept
    /\ callCount = 0

\* the entry checkPositionJump stores for the target of the evaluation
ObservationOf(log) ==
    [position |-> log.target.position, timestamp |-> log.target.timestamp]
\* the entry of id is new or has changed in this step
Recorded(id) ==
    /\ id \in DOMAIN previousPositions'
    /\ id \notin DOMAIN previousPositions \/ previousPositions'[id] # previousPositions[id]
\* both snapshots of the evaluation passed the gates
PassedGates(log) ==
    /\ IsEvaluation(log) /\ SelfPasses(log.self)
    /\ WasFetched(log.target) /\ ~IsNull(log.target)
    /\ isDataFresh(log.target) /\ validateVesselData(log.target)

\* C29, as claimed: an entry of previousPositions is made only in the
\* evaluation of a snapshot of that vessel that is fresh, valid and no farther
\* away than rangeMeters.
C29_RecordedOnlyInRange ==
    [][\A id \in Vessels :
         Recorded(id) =>
            /\ PassedGates(last') /\ last'.vessel = id
            /\ DistanceSqOf(last') <= Sq(options.rangeMeters)
      ]_vars

\* C29, amended: an entry of previousPositions is made or replaced only in the
\* evaluation of a snapshot of that vessel that is fresh and valid and is not
\* reported as a jump, and it holds that snapshot's position and timestamp.
\* The range is looked at afterwards: a snapshot beyond rangeMeters is recorded
\* like any other, unless the store is full of entries that are not stale.
C29_RecordedBeforeRangeFilter ==
    [][/\ \A id \in Vessels :
            Recorded(id) =>
               /\ PassedGates(last') /\ last'.vessel = id
               /\ last'.outcome \in {"OutOfRange", "Safe", "Threat"}
               /\ previousPositions'[id] = ObservationOf(last')
       /\ (/\ IsEvaluation(last') /\ last'.outcome = "OutOfRange"
           /\ \/ last'.vessel \in DOMAIN previousPositions
              \/ Cardinality(DOMAIN Kept(previousPositions)) < VESSEL_TRACKING_LIMIT)
          => /\ last'.vessel \in DOMAIN previousPositions'
             /\ previousPositions'[last'.vessel] = ObservationOf(last')
      ]_vars

\* a vessel reported out of range is in the store with that report
C29_Witness ==
    /\ IsEvaluation(last) /\ last.outcome = "OutOfRange"
    /\ last.vessel \in DOMAIN previousPositions
    /\ previousPositions[last.vessel] = ObservationOf(last)
    /\ DistanceSqOf(last) > Sq(options.rangeMeters)

\* C30, as claimed: an evaluation hands at most one notification to the host.
C30_OneNotificationPerEvaluation ==
    IsEvaluation(last) => Len(last.events) <= 1

\* C30, amended: an evaluation sends at most one notification, except on the
\* cleanup cadence, where the threat sweep and what follows it in the same
\* call each send at most one: when there are two, the sweep has sent
\* "normal" (it cleared the last threats) and the target's classification
\* "alarm".
C30_OneNotificationPerTransition ==
    IsEvaluation(last) =>
        /\ last.sweepEvents <= 1
        /\ Len(last.events) - last.sweepEvents <= 1
        /\ ~last.swept => last.sweepEvents = 0
        /\ last.sweepEvents = 1 => last.events[1].state = "normal"
        /\ Len(last.events) = 2 =>
              /\ EventStates(last.events) = <<"normal", "alarm">>
              /\ last.outcome = "Threat"

\* on the cadence, the sweep cleared the only threat, a vessel gone stale, and
\* the target of the call was classified a threat: two notifications
C30_Witness ==
    /\ IsEvaluation(last) /\ last.swept
    /\ last.sweepEvents = 1
    /\ Len(last.events) = 2
    /\ last.vessel \in DOMAIN collisions

\* the notification states that alternate from the alarm state `active`: the
\* first is "alarm" if the alarm was off and "normal" if it was on
Alternates(states, active) ==
    \A i \in DOMAIN states :
        states[i] = IF (i % 2 = 1) = active THEN "normal" ELSE "alarm"

\* C31: the notifications of every operation (a trigger with its sweep, a
\* stop) alternate between "alarm" and "normal", starting with the opposite of
\* the last one sent before, which the alarm flag remembers: the flag is off
\* at load and after a start, and after an operation that sent notifications
\* it is on exactly if the last of them was "alarm". The sequence of all
\* notifications therefore begins with "alarm" and strictly alternates.
C31_NotificationsAlternate ==
    [][/\ Alternates(EventStates(last'.events), alarmActive)
       /\ alarmActive' = IF last'.events = <<>> THEN alarmActive
                         ELSE last'.events[Len(last'.events)].state = "alarm"
       /\ (last'.op = "start" /\ detector') => ~alarmActive'
      ]_vars /\ ~alarmActive

\* the plugin is stopped with the alarm on and sends the clearing notification
C31_Witness ==
    /\ last.op = "stop"
    /\ EventStates(last.events) = <<"normal">>
    /\ ~alarmActive

\* f and g say the same about k: both lack it, or both map it to the same value
SameAt(f, g, k) ==
    /\ k \in DOMAIN f <=> k \in DOMAIN g
    /\ k \in DOMAIN f => f[k] = g[k]
\* checkPositionJump found the store at the limit for a vessel it does not
\* track, and ran cleanupStalePositions
CapacityPressure(log) ==
    /\ log.vessel \notin DOMAIN previousPositions
    /\ Cardinality(DOMAIN previousPositions) >= VESSEL_TRACKING_LIMIT
    /\ log.positionSweeps >= 1

\* C32: an evaluation of target X in which the periodic cleanup does not run
\* leaves the threat record of every other vessel Y as it was, and leaves Y's
\* previousPositions entry as it was unless that entry was stale and the
\* evaluation ran cleanupStalePositions for want of room, which removes it.
C32_OtherVesselsUntouched ==
    [][(IsEvaluation(last') /\ ~last'.swept) =>
          \A y \in Vessels \ {last'.vessel} :
              /\ SameAt(collisions, collisions', y)
              /\ \/ SameAt(previousPositions, previousPositions', y)
                 \/ /\ CapacityPressure(last')
                    /\ y \in StalePositions(previousPositions)
                    /\ y \notin DOMAIN previousPositions'
      ]_vars

\* off the cadence the target's threat record is removed, the other vessel's
\* record and tracked position stay
C32_Witness ==
    /\ IsEvaluation(last) /\ ~last.swept
    /\ last.outcome \in {"NoData", "Stale", "Invalid", "OutOfRange", "Safe"}
    /\ last.who = "target"
    /\ last.midAlarm
    /\ \E y \in Vessels \ {last.vessel} :
          y \in DOMAIN collisions /\ y \in DOMAIN previousPositions

\* the own vessel's snapshot is missing, too old or too new, or out of bounds
OwnSnapshotUnusable(x) ==
    \/ IsNull(x)
    \/ x.timestamp = 0
    \/ now - x.timestamp < -60
    \/ now - x.timestamp > options.timeouts.PosFreshBefore
    \/ validateVesselUpdate(x) # <<>>

\* C33: an evaluation in which the periodic cleanup does not run and whose
\* own-vessel snapshot is unavailable, stale or invalid changes the call
\* counter only: the threat set, the alarm flag and previousPositions stay as
\* they were, whatever the target's data, and nothing is sent; an alarm that
\* was on stays on.
C33_OwnVesselFailureChangesNothing ==
    [][(/\ IsEvaluation(last') /\ ~last'.swept
        /\ OwnSnapshotUnusable(last'.self))
       => /\ last'.outcome \in {"NoData", "Stale", "Invalid"}
          /\ last'.who = "self"
          /\ collisions' = collisions
          /\ alarmActive' = alarmActive
          /\ previousPositions' = previousPositions
          /\ last'.events = <<>>
          /\ callCount' = (callCount + 1) % CLEANUP_FREQUENCY
      ]_vars

\* off the cadence, with the own vessel's snapshot stale, the alarm stays on
\* for the threat that is there
C33_Witness ==
    /\ IsEvaluation(last) /\ ~last.swept
    /\ last.outcome = "Stale" /\ last.who = "self"
    /\ alarmActive
    /\ last.vessel \in DOMAIN collisions

\* previousPositions as the evaluation described by log found it at
\* checkPositionJump: without the stale entries if the periodic cleanup ran
StoreAtJumpCheck(log) ==
    IF log.swept THEN Kept(previousPositions) ELSE previousPositions
\* the target's report implies more than 45 m/s from the stored position
ImpliesJump(log) ==
    /\ log.vessel \in DOMAIN StoreAtJumpCheck(log)
    /\ log.target.timestamp > StoreAtJumpCheck(log)[log.vessel].timestamp
    /\ haversineDistanceSq(StoreAtJumpCheck(log)[log.vessel].position,
                           log.target.position)
         > Sq(45 * (log.target.timestamp
                      - StoreAtJumpCheck(log)[log.vessel].timestamp))

\* C34: an evaluation whose snapshots pass the gates ends as Jumped exactly
\* when the target's report implies a jump from the stored entry, and then
\* leaves the stored position and timestamp as they were, so that the next
\* report is compared with the last accepted one; otherwise it stores the
\* target's position and timestamp, if the vessel is tracked or there is
\* room once the stale entries are removed.
C34_JumpKeepsAcceptedPosition ==
    [][PassedGates(last') =>
          IF ImpliesJump(last')
          THEN /\ last'.outcome = "Jumped"
               /\ previousPositions' = StoreAtJumpCheck(last')
               /\ previousPositions'[last'.vessel] = previousPositions[last'.vessel]
          ELSE /\ last'.outcome # "Jumped"
               /\ (\/ last'.vessel \in DOMAIN StoreAtJumpCheck(last')
                   \/ Cardinality(DOMAIN Kept(previousPositions))
                        < VESSEL_TRACKING_LIMIT)
                  => /\ last'.vessel \in DOMAIN previousPositions'
                     /\ previousPositions'[last'.vessel] = ObservationOf(last')
      ]_vars

\* a report 6000 m from the stored position, 61 s after it, is a jump; the
\* store still holds the earlier position
C34_Witness ==
    /\ IsEvaluation(last) /\ last.outcome = "Jumped"
    /\ last.target.position = OutOfRange
    /\ previousPositions[last.vessel].position = AtEntryThreshold
    /\ previousPositions[last.vessel].timestamp = last.target.timestamp - TickSeconds

\* q <= k for a fraction q and an integer k; false when q is NaN or Infinity
FracAtMost(q, k) == q.d # 0 /\ q.n <= k * q.d

\* C35: every record of the threat set is stored under its own vesselId, its
\* distance does not exceed the maximum range, a CPA record has cpaDistance <=
\* safe-passing distance + hysteresis and is on a parallel course or has
\* tcpaMinutes <= the time window, and a GEOMETRIC record has a distance below
\* 2 x safe-passing distance + hysteresis.
C35_ThreatRecordBounds ==
    \A id \in DOMAIN collisions :
        /\ collisions[id].vesselId = id
        /\ collisions[id].distanceSq <= Sq(options.rangeMeters)
        /\ collisions[id].method = "CPA"
             => /\ FracAtMost(collisions[id].cpaDistanceSq,
                              Sq(SafeDistancePlusHysteresis))
                /\ \/ collisions[id].parallelCourse
                   \/ FracAtMost(collisions[id].tcpaMinutes,
                                 options.timeWindowMinutes)
        /\ collisions[id].method = "GEOMETRIC"
             => collisions[id].distanceSq
                  < Sq(2 * SafeDistance + options.alarmHysteresisMeters)

\* C36: a second evaluation of the same target, with the snapshots and the
\* clock of the first and off the cleanup cadence, leaves the threat set, the
\* alarm state and previousPositions as the first left them and publishes no
\* notification.
C36_ReevaluationIdempotent ==
    [][(last'.op = "recheck" /\ ~last'.swept)
         => /\ collisions' = collisions
            /\ alarmActive' = alarmActive
            /\ previousPositions' = previousPositions
            /\ last'.events = <<>>
            /\ last'.outcome = last.outcome
      ]_vars

\* a target found a threat at the entry threshold, which raised the alarm, has
\* been evaluated a second time, under the wider threshold
C36_Witness ==
    /\ last.op = "recheck" /\ ~last.swept
    /\ last.outcome = "Threat" /\ last.target.position = AtEntryThreshold
    /\ DOMAIN collisions = {last.vessel} /\ alarmActive

\* two reports have been delivered, A's first
Paired(log) == log.op = "pair"
\* what the deliveries would have left had B's report come first
Reversed(log) == EvaluateInOrder(log.before, "B", "A", log.env)
\* the target is classified a threat against the own vessel under the entry
\* thresholds (widened = FALSE) or under the thresholds with the hysteresis
ThreatUnder(selfVessel, targetVessel, widened) ==
    IF HasCourse(selfVessel) /\ HasCourse(targetVessel)
    THEN /\ ~calculateCPA(selfVessel, targetVessel).diverging
         /\ CpaAtMost(calculateCPA(selfVessel, targetVessel),
                      IF widened THEN SafeDistancePlusHysteresis ELSE SafeDistance)
         /\ \/ calculateCPA(selfVessel, targetVessel).parallelCourse
            \/ TcpaInWindow(calculateCPA(selfVessel, targetVessel))
    ELSE calculateDistanceSq(selfVessel.position, targetVessel.position)
           < Sq(2 * SafeDistance
                  + (IF widened THEN options.alarmHysteresisMeters ELSE 0))
\* the target's classification depends on the alarm state: it lies between
\* the entry threshold and the widened one
InHysteresisBandOf(selfVessel, targetVessel) ==
    /\ SelfPasses(selfVessel) /\ SelfPasses(targetVessel)
    /\ ThreatUnder(selfVessel, targetVessel, TRUE)
         # ThreatUnder(selfVessel, targetVessel, FALSE)
\* neither target lies in the hysteresis band and neither has a stored
\* position old enough to be evicted
OrderCannotMatter(log) ==
    /\ \A id \in Vessels : ~InHysteresisBandOf(log.env[OwnId], log.env[id])
    /\ StalePositions(log.before.previousPositions) = {}

\* C37, as claimed: the reports of A and B delivered in the order A, B leave
\* the threat set and the alarm state that the order B, A would have left.
C37_OrderIndependent ==
    Paired(last)
    => /\ collisions = Reversed(last).collisions
       /\ alarmActive = Reversed(last).alarmActive

\* C37, amended: the order of the two reports does not change the threat set
\* or the alarm state when neither target lies in the hysteresis band and no
\* stored position is stale. (A target in the band is classified under the
\* alarm state the other report left.)
C37_OrderIndependentOutsideBand ==
    (Paired(last) /\ OrderCannotMatter(last))
    => /\ collisions = Reversed(last).collisions
       /\ alarmActive = Reversed(last).alarmActive

\* from a state with A the only threat, A's report beyond both thresholds and
\* B's at the entry threshold have been delivered: B is the only threat now
C37_Witness ==
    /\ Paired(last) /\ OrderCannotMatter(last)
    /\ DOMAIN last.before.collisions = {"A"}
    /\ last.env["A"] = Moving(BeyondThresholds, Closing, now)
    /\ last.env["B"] = Moving(AtEntryThreshold, Closing, now)
    /\ DOMAIN collisions = {"B"} /\ alarmActive

\* a position report has been delivered: evaluated or ignored
IsTrigger(log) == log.op \in {"check", "ignored"}

\* C38: plugin.stop sends one clearing notification if the alarm is active
\* and nothing otherwise, and leaves the threat set and previousPositions
\* empty, the alarm inactive and the plugin stopped; while the plugin is
\* stopped a position report is ignored and changes nothing; a successful
\* start begins with the alarm inactive, no threats, no stored positions and
\* the evaluation counter at 0.
C38_StopClearsAndIgnores ==
    [][/\ last'.op = "stop"
          => /\ EventStates(last'.events)
                  = IF alarmActive THEN <<"normal">> ELSE <<>>
             /\ collisions' = <<>> /\ previousPositions' = <<>>
             /\ ~alarmActive' /\ ~detector'
       /\ (~detector /\ IsTrigger(last'))
          => /\ last'.op = "ignored" /\ last'.events = <<>>
             /\ UNCHANGED <<detector, alarmActive, collisions,
                            previousPositions, callCount>>
       /\ (~detector /\ last'.op = "start")
          => /\ detector' = (validateOptions(last'.config) = <<>>)
             /\ collisions' = <<>> /\ previousPositions' = <<>>
             /\ ~alarmActive' /\ callCount' = 0
      ]_vars

\* the plugin has been stopped with the alarm on and positions stored: the
\* clearing notification is sent and nothing is left of the detector's state
C38_Witness ==
    /\ last.op = "stop" /\ ~detector
    /\ EventStates(last.events) = <<"normal">>
    /\ collisions = <<>> /\ previousPositions = <<>> /\ callCount = 0

\* the notifications that go with the changes of the threat set in the
\* evaluation described by log, which led from threat set `before` to `after`
TransitionsOf(log, before, after) ==
    IF log.swept
    THEN TransitionEvents(HasThreats(before), log.fresh # {})
         \o TransitionEvents(log.fresh # {}, HasThreats(after))
    ELSE TransitionEvents(HasThreats(before), HasThreats(after))

\* C39: when app.handleMessage throws on a notification the evaluation ends
\* as it would have (the call is counted and has an outcome), the alarm flag
\* has its new value, the non-emptiness of the threat set, and what is handed
\* to app.handleMessage in any evaluation, delivered or thrown on, is one
\* notification for each change of the threat set between empty and
\* non-empty: an evaluation that leaves the non-emptiness as it was hands
\* over nothing, whether or not an earlier notification failed.
C39_SinkFailureContained ==
    [][IsEvaluation(last') =>
         /\ last'.outcome \in {"NoData", "Stale", "Invalid", "Jumped",
                                "OutOfRange", "Safe", "Threat"}
         /\ callCount' = (callCount + 1) % CLEANUP_FREQUENCY
         /\ alarmActive' = HasThreats(collisions')
         /\ \/ /\ last'.rejected = <<>>
               /\ EventStates(last'.events)
                    = TransitionsOf(last', collisions, collisions')
            \/ /\ last'.events = <<>>
               /\ EventStates(last'.rejected)
                    = TransitionsOf(last', collisions, collisions')
      ]_vars

\* app.handleMessage threw on the activation: the target is in the threat
\* set and the alarm flag is on
C39_Witness ==
    /\ IsEvaluation(last) /\ last.outcome = "Threat"
    /\ EventStates(last.rejected) = <<"alarm">> /\ last.events = <<>>
    /\ DOMAIN collisions = {last.vessel} /\ alarmActive

====
